---- MODULE Spec2Model ----
(***************************************************************************)
(* News-to-price sentiment pipeline of src/price_fetcher.py.               *)
(*                                                                         *)
(* Conventions                                                             *)
(*  - A float is an exact rational <<n, d>> in lowest terms with d > 0.    *)
(*    Python's None (and pandas' NaN for a missing value) is None == <<>>. *)
(*  - A timestamp is a number of seconds of exchange-local wall-clock time *)
(*    counted from Monday 00:00:00 of the week the run happens in.         *)
(*    Inside the news collector a datetime carries its UTC offset too.     *)
(*  - A ticker string is the sequence of its character codes, so that      *)
(*    sorted() and ','.join() are computed on the characters.              *)
(***************************************************************************)
EXTENDS Integers, Sequences, FiniteSets, TLC

VARIABLES
    mo_time, mo_result,          \* one call of is_market_open
    adj_in, adj_out,             \* one call of adjust_sentiment_for_trend
    pt_in, pt_out,               \* one call of get_price_trend
    dd_pc, dd_in, dd_out,        \* one call of remove_duplicates,
    dd_list, dd_again,           \* the caller's list after it, a second call
    pc, now, tickers, tick_i,    \* main() of the sentiment pipeline
    all_news, news_df, trends, price_calls, output,
    FINBERT_PIPELINE,            \* the module global: is the model loaded
    ck_text, ck_out,             \* one call of chunk_text
    sc_calls, sc_loads, sc_last, \* a sequence of analyzer calls
    co_pc, co_in, co_out,        \* one call of fetch_yahoo_rss_news
    pr_in, pr_out,               \* one call of process_news_data
    ex_pc, ex_env, ex_news_data, \* main() of the screener/news export
    ex_screener_data, ex_price_requests, ex_output,
    ch_main, ch_pc, ch_tickers,  \* a main over the ticker list: which one, where
    ch_i, ch_all_news, ch_output,
    ch_clock, ch_log,            \* the clock and the fetches of a ticker loop
    cl_in, cl_out,               \* one call of clean_text
    db_ui, stop_refresh,         \* the dashboard session and its refresh
    refresh_thread, db_threads, db_updates  \* threads

calVars  == <<mo_time, mo_result>>
adjVars  == <<adj_in, adj_out>>
ptVars   == <<pt_in, pt_out>>
ddVars   == <<dd_pc, dd_in, dd_out, dd_list, dd_again>>
mainVars == <<pc, now, tickers, tick_i, all_news, news_df, trends, price_calls, output>>
ckVars   == <<ck_text, ck_out>>
scVars   == <<sc_calls, sc_loads, sc_last>>
coVars   == <<co_pc, co_in, co_out>>
prVars   == <<pr_in, pr_out>>
exVars   == <<ex_pc, ex_env, ex_news_data, ex_screener_data, ex_price_requests, ex_output>>
chVars   == <<ch_main, ch_pc, ch_tickers, ch_i, ch_all_news, ch_output,
             ch_clock, ch_log>>
clVars   == <<cl_in, cl_out>>
dbVars   == <<db_ui, stop_refresh, refresh_thread, db_threads, db_updates>>
auxVars  == <<prVars, exVars, chVars, clVars, dbVars>>
txtVars  == <<ckVars, scVars, coVars, auxVars>>
vars     == <<calVars, adjVars, ptVars, ddVars, mainVars, FINBERT_PIPELINE, txtVars>>

None == <<>>

(***************************************************************************)
(* Exact rational arithmetic standing for Python float arithmetic.         *)
(***************************************************************************)
Abs(n) == IF n < 0 THEN -n ELSE n

RECURSIVE GCD(_, _)
GCD(a, b) == IF b = 0 THEN a ELSE GCD(b, a % b)

Rat(n, d) ==
    LET s == IF d < 0 THEN -1 ELSE 1
        g == GCD(Abs(n), Abs(d))
    IN  <<(s * n) \div g, (s * d) \div g>>

FromInt(n) == <<n, 1>>
RAdd(a, b) == Rat(a[1] * b[2] + b[1] * a[2], a[2] * b[2])
RSub(a, b) == Rat(a[1] * b[2] - b[1] * a[2], a[2] * b[2])
RMul(a, b) == Rat(a[1] * b[1], a[2] * b[2])
RDiv(a, b) == Rat(a[1] * b[2], a[2] * b[1])
RLt(a, b)  == a[1] * b[2] < b[1] * a[2]
RLeq(a, b) == a[1] * b[2] <= b[1] * a[2]
\* Python's min(a, b) / max(a, b): the first argument wins a tie.
RMin(a, b) == IF RLt(b, a) THEN b ELSE a
RMax(a, b) == IF RLt(a, b) THEN b ELSE a

(***************************************************************************)
(* Timestamps: datetime.weekday(), .hour, .minute                          *)
(***************************************************************************)
At(day, h, m, s) == day * 86400 + h * 3600 + m * 60 + s
Weekday(t) == (t \div 86400) % 7
Hour(t)    == (t % 86400) \div 3600
Minute(t)  == (t % 3600) \div 60

(***************************************************************************)
(* is_market_open                                                          *)
(***************************************************************************)
\* Lines 275-279: the weekday, the hour and the minute are compared; the
\* second is not.
is_market_open(time) ==
    /\ Weekday(time) < 5
    /\ \/ (Hour(time) = 9 /\ Minute(time) >= 30)
       \/ (Hour(time) > 9 /\ Hour(time) < 16)
       \/ (Hour(time) = 16 /\ Minute(time) = 0)

(***************************************************************************)
(* adjust_sentiment_for_trend                                              *)
(***************************************************************************)
\* A variant that puts a zero trend in the positive branch.
adjust_zero_is_positive(sentiment_score, trend_percentage) ==
    LET trend_factor == Rat(1, 100)
        positive == RLeq(FromInt(0), trend_percentage)
        base_sentiment == IF positive THEN Rat(1, 10) ELSE Rat(-1, 10)
        adjustment ==
            IF positive
            THEN RMin(RMul(trend_factor, trend_percentage), FromInt(1))
            ELSE RMax(RMul(trend_factor, trend_percentage), FromInt(-1))
        adjusted_sentiment == RAdd(base_sentiment, adjustment)
    IN  RMax(RMin(adjusted_sentiment, FromInt(1)), FromInt(-1))

\* Lines 232-243. sentiment_score is accepted and not used.
adjust_sentiment_for_trend(sentiment_score, trend_percentage) ==
    LET trend_factor == Rat(1, 100)
        positive == RLt(FromInt(0), trend_percentage)
        base_sentiment == IF positive THEN Rat(1, 10) ELSE Rat(-1, 10)
        adjustment ==
            IF positive
            THEN RMin(RMul(trend_factor, trend_percentage), FromInt(1))
            ELSE RMax(RMul(trend_factor, trend_percentage), FromInt(-1))
        adjusted_sentiment == RAdd(base_sentiment, adjustment)
    IN  RMax(RMin(adjusted_sentiment, FromInt(1)), FromInt(-1))

(***************************************************************************)
(* The market-data feed: stock.history(start, end, interval="1m")          *)
(***************************************************************************)
MaxBars == 3
PriceVals == {50, 100, 150}
\* Minute marks of the requested window that may carry a bar, counted from
\* the first full minute of the window.
BarSlots == {0, 9, 10, 11, 19}

RECURSIVE SortSet(_)
SortSet(S) ==
    IF S = {} THEN <<>>
    ELSE LET m == CHOOSE x \in S : \A y \in S : x <= y
         IN  <<m>> \o SortSet(S \ {m})

BarSeq(S, cl) ==
    LET ts == SortSet(S)
    IN  [i \in 1..Len(ts) |-> [t |-> ts[i], close |-> cl[ts[i]]]]

\* What the feed may answer to a request for [start, end_): an exception, or
\* a (possibly empty) ascending series of minute bars inside the window.
HistoryResponses(start, end_) ==
    LET first == ((start + 59) \div 60) * 60
        cand  == {t \in {first + 60 * k : k \in BarSlots} : start <= t /\ t < end_}
    IN  {[raises |-> TRUE, bars |-> <<>>]} \cup
        UNION {{[raises |-> FALSE, bars |-> BarSeq(S, cl)] : cl \in [S -> PriceVals]} :
                  S \in {T \in SUBSET cand : Cardinality(T) <= MaxBars}}

(***************************************************************************)
(* pandas lookups used by get_price_trend                                  *)
(***************************************************************************)
NaT == -1

\* A nearest-bar lookup: the bar closest in time, a later one included.
index_nearest(data, label) ==
    LET far(i)  == Abs(data[i].t - label)
        best    == CHOOSE i \in 1..Len(data) : \A j \in 1..Len(data) :
                       far(i) < far(j) \/ (far(i) = far(j) /\ i >= j)
    IN  data[best].t

\* DatetimeIndex.asof(label): the latest index label at or before label, NaT
\* when there is none.
index_asof(data, label) ==
    LET S == {data[i].t : i \in {j \in 1..Len(data) : data[j].t <= label}}
    IN  IF S = {} THEN NaT ELSE CHOOSE x \in S : \A y \in S : y <= x

\* data.loc[label, 'Close']; NaT is never a label of the index (KeyError).
loc_has(data, label) == \E i \in 1..Len(data) : data[i].t = label
loc_close(data, label) ==
    LET i == CHOOSE j \in 1..Len(data) : data[j].t = label
    IN  FromInt(data[i].close)

(***************************************************************************)
(* get_price_trend                                                         *)
(***************************************************************************)
\* A null record that keeps a number in minutes_after.
NullTrend_keeps_minutes(status) ==
    [price_10_min_before |-> None, price_at_news |-> None, price_after |-> None,
     trend_before |-> None, trend_after |-> None, minutes_after |-> FromInt(0),
     market_status |-> status,
     nltk_price_sentiment |-> None, finvader_price_sentiment |-> None,
     finbert_price_sentiment |-> None]

\* Lines 318-329 and 332-343: the record of the Closed and Error outcomes.
NullTrend(status) ==
    [price_10_min_before |-> None, price_at_news |-> None, price_after |-> None,
     trend_before |-> None, trend_after |-> None, minutes_after |-> None,
     market_status |-> status,
     nltk_price_sentiment |-> None, finvader_price_sentiment |-> None,
     finbert_price_sentiment |-> None]

\* Line 287.
window_start(news_time) == news_time - 10 * 60

\* A forward side that is not clamped to the current time.
window_end_unclamped(news_time, current_time) == news_time + 10 * 60

\* Line 288: min(news_time + 10 min, current_time).
window_end(news_time, current_time) ==
    IF current_time < news_time + 10 * 60 THEN current_time ELSE news_time + 10 * 60

\* The Open record with one slot adjusted from the trend before the news.
open_trend_slot_differs(data, news_time, end_time) ==
    LET price_10_min_before == FromInt(data[1].close)
        price_at_news == loc_close(data, index_asof(data, news_time))
        price_after == FromInt(data[Len(data)].close)
        trend_before == RMul(RDiv(RSub(price_at_news, price_10_min_before),
                                  price_10_min_before), FromInt(100))
        trend_after == RMul(RDiv(RSub(price_after, price_at_news),
                                 price_at_news), FromInt(100))
        minutes_after == RMin(FromInt(10), Rat(end_time - news_time, 60))
    IN  [price_10_min_before |-> price_10_min_before,
         price_at_news |-> price_at_news,
         price_after |-> price_after,
         trend_before |-> trend_before,
         trend_after |-> trend_after,
         minutes_after |-> minutes_after,
         market_status |-> "Open",
         nltk_price_sentiment |-> adjust_sentiment_for_trend(FromInt(0), trend_after),
         finvader_price_sentiment |-> adjust_sentiment_for_trend(FromInt(0), trend_after),
         finbert_price_sentiment |-> adjust_sentiment_for_trend(FromInt(0), trend_before)]

\* Lines 292-316: the record built from a non-empty bar series in which the
\* as-of lookup found a bar.
open_trend(data, news_time, end_time) ==
    LET price_10_min_before == FromInt(data[1].close)
        price_at_news == loc_close(data, index_asof(data, news_time))
        price_after == FromInt(data[Len(data)].close)
        trend_before == RMul(RDiv(RSub(price_at_news, price_10_min_before),
                                  price_10_min_before), FromInt(100))
        trend_after == RMul(RDiv(RSub(price_after, price_at_news),
                                 price_at_news), FromInt(100))
        minutes_after == RMin(FromInt(10), Rat(end_time - news_time, 60))
    IN  [price_10_min_before |-> price_10_min_before,
         price_at_news |-> price_at_news,
         price_after |-> price_after,
         trend_before |-> trend_before,
         trend_after |-> trend_after,
         minutes_after |-> minutes_after,
         market_status |-> "Open",
         nltk_price_sentiment |-> adjust_sentiment_for_trend(FromInt(0), trend_after),
         finvader_price_sentiment |-> adjust_sentiment_for_trend(FromInt(0), trend_after),
         finbert_price_sentiment |-> adjust_sentiment_for_trend(FromInt(0), trend_after)]

\* The body of the try block (lines 283-329). exc names the exception that
\* leaves the block ("none": the block returned ret); requests lists the
\* stock.history calls made. yf.Ticker(ticker) builds the handle without a
\* request and datetime.now cannot fail, so the first statement that can
\* raise is stock.history; the next is the as-of lookup of line 293. Closes
\* are positive, so the divisions of lines 296-297 are defined.
price_trend_try(ticker, news_time, current_time, resp) ==
    IF is_market_open(news_time)
    THEN LET start_time == window_start(news_time)
             end_time == window_end(news_time, current_time)
             request == [ticker |-> ticker, start |-> start_time,
                         end_ |-> end_time, interval |-> "1m"]
             data == resp.bars
         IN  IF resp.raises
             THEN [exc |-> "HistoryError", ret |-> None, requests |-> <<request>>]
             ELSE IF Len(data) > 0
             THEN IF loc_has(data, index_asof(data, news_time))
                  THEN [exc |-> "none",
                        ret |-> open_trend(data, news_time, end_time),
                        requests |-> <<request>>]
                  ELSE [exc |-> "KeyError", ret |-> None, requests |-> <<request>>]
             ELSE [exc |-> "none", ret |-> NullTrend("Closed"),
                   requests |-> <<request>>]
    ELSE [exc |-> "none", ret |-> NullTrend("Closed"), requests |-> <<>>]

\* A sampler whose handler lets the exception through to the caller.
get_price_trend_propagates(ticker, news_time, current_time, resp) ==
    LET r == price_trend_try(ticker, news_time, current_time, resp)
    IN  [exc |-> r.exc, caught |-> "none", ret |-> r.ret, requests |-> r.requests]

\* get_price_trend: the try block and its except clause (lines 330-343).
\* caught names the exception the handler turned into the Error record.
get_price_trend(ticker, news_time, current_time, resp) ==
    LET r == price_trend_try(ticker, news_time, current_time, resp)
    IN  IF r.exc # "none"
        THEN [exc |-> "none", caught |-> r.exc, ret |-> NullTrend("Error"),
              requests |-> r.requests]
        ELSE [exc |-> "none", caught |-> "none", ret |-> r.ret, requests |-> r.requests]

(***************************************************************************)
(* remove_duplicates                                                       *)
(***************************************************************************)
Comma == <<44>>
AAA == <<65, 65, 65>>
BBB == <<66, 66, 66>>
AA  == <<65, 65>>

\* Python's str < str: by character code, a proper prefix first.
RECURSIVE LexLess(_, _)
LexLess(a, b) ==
    IF Len(b) = 0 THEN FALSE
    ELSE IF Len(a) = 0 THEN TRUE
    ELSE IF Head(a) # Head(b) THEN Head(a) < Head(b)
    ELSE LexLess(Tail(a), Tail(b))

\* sorted(set_of_strings)
RECURSIVE SortStrings(_)
SortStrings(S) ==
    IF S = {} THEN <<>>
    ELSE LET m == CHOOSE x \in S : \A y \in S \ {x} : LexLess(x, y)
         IN  <<m>> \o SortStrings(S \ {m})

\* sep.join(strings)
RECURSIVE Join(_, _)
Join(strs, sep) ==
    IF Len(strs) = 0 THEN <<>>
    ELSE IF Len(strs) = 1 THEN strs[1]
    ELSE strs[1] \o sep \o Join(Tail(strs), sep)

KeyOf(item) == <<item.title, item.link>>

\* The keys of unique_news in insertion order (a dict keeps it).
RECURSIVE DictKeys(_)
DictKeys(items) ==
    IF Len(items) = 0 THEN <<>>
    ELSE LET front == DictKeys(SubSeq(items, 1, Len(items) - 1))
             k == KeyOf(items[Len(items)])
         IN  IF \E i \in 1..Len(front) : front[i] = k THEN front ELSE Append(front, k)

\* unique_news[key]: the items of the key in input order.
NewsList(items, k) == SelectSeq(items, LAMBDA it : KeyOf(it) = k)

\* A survivor chosen as the latest item of the group.
survivor_latest(news_list) ==
    LET i == CHOOSE j \in 1..Len(news_list) : \A m \in 1..Len(news_list) :
                 news_list[j].publish_time > news_list[m].publish_time
                 \/ (news_list[j].publish_time = news_list[m].publish_time /\ j <= m)
    IN  news_list[i]

\* min(news_list, key=publish_time): the first item of minimal publish_time.
survivor(news_list) ==
    LET i == CHOOSE j \in 1..Len(news_list) : \A m \in 1..Len(news_list) :
                 news_list[j].publish_time < news_list[m].publish_time
                 \/ (news_list[j].publish_time = news_list[m].publish_time /\ j <= m)
    IN  news_list[i]

\* The tickers joined as they come, neither sorted nor made distinct.
combined_tickers_in_order(news_list) ==
    Join([i \in 1..Len(news_list) |-> news_list[i].ticker], Comma)

\* ','.join(sorted(set(item['ticker'] for item in news_list)))
combined_tickers(news_list) ==
    Join(SortStrings({news_list[i].ticker : i \in 1..Len(news_list)}), Comma)

\* Lines 45-59: one survivor per key, in the order the keys first appear.
remove_duplicates(news_items) ==
    LET keys == DictKeys(news_items)
    IN  [g \in 1..Len(keys) |->
            [survivor(NewsList(news_items, keys[g])) EXCEPT
                 !.ticker = combined_tickers(NewsList(news_items, keys[g]))]]

\* Line 56 assigns the combined ticker to the surviving dict itself, which is
\* an element of the caller's list: the list as the caller sees it afterwards.
list_after_call(news_items) ==
    [i \in 1..Len(news_items) |->
        LET news_list == NewsList(news_items, KeyOf(news_items[i]))
            place == Cardinality({j \in 1..i : KeyOf(news_items[j]) = KeyOf(news_items[i])})
            first_min == CHOOSE j \in 1..Len(news_list) : \A m \in 1..Len(news_list) :
                 news_list[j].publish_time < news_list[m].publish_time
                 \/ (news_list[j].publish_time = news_list[m].publish_time /\ j <= m)
        IN  IF place = first_min
            THEN [news_items[i] EXCEPT !.ticker = combined_tickers(news_list)]
            ELSE news_items[i]]

(***************************************************************************)
(* The text analyzers (lines 121-203)                                      *)
(*                                                                         *)
(* A text handed to chunk_text is the sequence of the words text.split()   *)
(* finds in it; a chunk, ' '.join(words[i:i + n]), is the sequence of its  *)
(* words.                                                                  *)
(***************************************************************************)
\* Line 143: the default of max_length.
ChunkMaxLength == 500

\* Every chunk holds max_length words instead of max_length // 2.
chunk_text_whole_length(text, max_length) ==
    LET words_per_chunk == max_length
        n == Len(text)
        k == (n + words_per_chunk - 1) \div words_per_chunk
    IN  [c \in 1..k |->
            SubSeq(text, (c - 1) * words_per_chunk + 1,
                   IF c * words_per_chunk < n THEN c * words_per_chunk ELSE n)]

\* chunk_text (lines 143-154): range(0, len(words), words_per_chunk) has
\* ceil(len(words) / words_per_chunk) starts; a slice stops at the end of the
\* list. There is no test of the length of the text.
chunk_text(text, max_length) ==
    LET words_per_chunk == max_length \div 2
        n == Len(text)
        k == (n + words_per_chunk - 1) \div words_per_chunk
    IN  [c \in 1..k |->
            SubSeq(text, (c - 1) * words_per_chunk + 1,
                   IF c * words_per_chunk < n THEN c * words_per_chunk ELSE n)]

\* What a lexicon model (nltk_sia.polarity_scores, finvader) does with one
\* text: it raises, or answers a compound score.
LexiconAnswers ==
    {[raises |-> TRUE, value |-> FromInt(0)]} \cup
    {[raises |-> FALSE, value |-> v] :
        v \in {FromInt(-1), Rat(-1, 2), FromInt(0), Rat(3, 10), FromInt(1)}}

\* What FINBERT_PIPELINE(chunk)[0] does with one chunk: it raises, or answers
\* a label and the score of that label.
ChunkAnswers ==
    {[raises |-> TRUE, label |-> "neutral", score |-> FromInt(0)]} \cup
    {[raises |-> FALSE, label |-> l, score |-> sc] :
        l \in {"positive", "negative", "neutral"}, sc \in {Rat(1, 2), FromInt(1)}}

\* What the transformer does in one call of get_finbert_sentiment: whether
\* pipeline(...) succeeds if it is run, and the answer to each chunk.
FinbertAnswers(text) ==
    {[load_ok |-> ok, results |-> rs] :
        ok \in BOOLEAN,
        rs \in [1..Len(chunk_text(text, ChunkMaxLength)) -> ChunkAnswers]}

\* get_nltk_sentiment (lines 187-190): no handler, an exception of the model
\* leaves the function.
get_nltk_sentiment(answer) ==
    IF answer.raises THEN [exc |-> "Exception", ret |-> None]
    ELSE [exc |-> "none", ret |-> answer.value]

\* get_finvader_sentiment (lines 192-203): 0.0 when the model raises.
get_finvader_sentiment(answer) ==
    [exc |-> "none", ret |-> IF answer.raises THEN FromInt(0) ELSE answer.value]

\* The model is loaded on every call, loaded or not.
initialize_finbert_always(loaded, load_ok) ==
    [exc |-> ~load_ok, loaded |-> load_ok, loads |-> <<load_ok>>]

\* Lines 159-160 and initialize_finbert (127-131): pipeline(...) runs only
\* while FINBERT_PIPELINE is None; if it raises the global stays None.
\* loads lists the runs of pipeline(...) with their success.
initialize_finbert(loaded, load_ok) ==
    IF loaded THEN [exc |-> FALSE, loaded |-> TRUE, loads |-> <<>>]
    ELSE [exc |-> ~load_ok, loaded |-> load_ok, loads |-> <<load_ok>>]

\* The score of a chunk whatever its label.
chunk_sentiment_unsigned(result) ==
    IF result.label = "neutral" THEN FromInt(0) ELSE result.score

\* Lines 171-176.
chunk_sentiment(result) ==
    IF result.label = "positive" THEN result.score
    ELSE IF result.label = "negative" THEN RSub(FromInt(0), result.score)
    ELSE FromInt(0)

RECURSIVE RSum(_)
RSum(vals) == IF vals = <<>> THEN FromInt(0) ELSE RAdd(Head(vals), RSum(Tail(vals)))

\* The sum of the chunk sentiments in place of their mean.
chunk_total(sentiments) ==
    IF sentiments # <<>> THEN RSum(sentiments) ELSE FromInt(0)

\* Lines 179-181.
chunk_mean(sentiments) ==
    IF sentiments # <<>> THEN RDiv(RSum(sentiments), FromInt(Len(sentiments)))
    ELSE FromInt(0)

\* The try block of get_finbert_sentiment (lines 158-181).
finbert_try(loaded, text, answer) ==
    LET init   == initialize_finbert(loaded, answer.load_ok)
        chunks == chunk_text(text, ChunkMaxLength)
        sentiments == [c \in 1..Len(chunks) |-> chunk_sentiment(answer.results[c])]
    IN  IF init.exc
        THEN [exc |-> TRUE, ret |-> None, loaded |-> init.loaded, loads |-> init.loads,
              chunks |-> <<>>]
        ELSE IF \E c \in 1..Len(chunks) : answer.results[c].raises
        THEN [exc |-> TRUE, ret |-> None, loaded |-> init.loaded, loads |-> init.loads,
              chunks |-> chunks]
        ELSE [exc |-> FALSE, ret |-> chunk_mean(sentiments), loaded |-> init.loaded,
              loads |-> init.loads, chunks |-> chunks]

\* get_finbert_sentiment (lines 156-185): 0.0 when anything in the try block
\* raises. loaded is FINBERT_PIPELINE after the call.
get_finbert_sentiment(loaded, text, answer) ==
    LET r == finbert_try(loaded, text, answer)
    IN  [exc |-> "none", ret |-> IF r.exc THEN FromInt(0) ELSE r.ret,
         caught |-> r.exc, loaded |-> r.loaded, loads |-> r.loads, chunks |-> r.chunks]

(***************************************************************************)
(* Single calls of the pure functions, on inputs drawn from bounded sets.  *)
(***************************************************************************)
CalIdle  == mo_time = 0 /\ mo_result = <<>>
AdjIdle  == adj_in = FromInt(0) /\ adj_out = <<>>
PtIdle   == pt_in = [ticker |-> AAA, news_time |-> 0, current_time |-> 0] /\ pt_out = <<>>
DdIdle   == /\ dd_pc = "idle" /\ dd_in = <<>> /\ dd_out = <<>>
            /\ dd_list = <<>> /\ dd_again = <<>>
MainIdle ==
    /\ pc = "idle" /\ now = 0 /\ tickers = <<>> /\ tick_i = 1
    /\ all_news = <<>> /\ news_df = <<>> /\ trends = <<>>
    /\ price_calls = <<>> /\ output = <<>>

CkIdle == ck_text = <<>> /\ ck_out = <<>>
ScIdle == sc_calls = <<>> /\ sc_loads = <<>> /\ sc_last = <<>>
CoIdle == co_pc = "idle" /\ co_in = <<>> /\ co_out = <<>>
\* Line 122: FINBERT_PIPELINE = None when the module is loaded.
FbIdle == FINBERT_PIPELINE = FALSE
PrIdle == pr_in = <<>> /\ pr_out = <<>>
ExIdle ==
    /\ ex_pc = "idle" /\ ex_env = <<>> /\ ex_news_data = <<>>
    /\ ex_screener_data = <<>> /\ ex_price_requests = <<>> /\ ex_output = <<>>
ChIdle == /\ ch_main = "" /\ ch_pc = "idle" /\ ch_tickers = <<>> /\ ch_i = 0
          /\ ch_all_news = <<>> /\ ch_output = <<>>
          /\ ch_clock = 0 /\ ch_log = <<>>
ClIdle == cl_in = <<>> /\ cl_out = <<>>
DbIdle ==
    /\ db_ui = <<>> /\ stop_refresh = FALSE /\ refresh_thread = 0
    /\ db_threads = <<>> /\ db_updates = {}
AuxIdle == PrIdle /\ ExIdle /\ ChIdle /\ ClIdle /\ DbIdle
TxtIdle == CkIdle /\ ScIdle /\ CoIdle /\ AuxIdle

\* ---- is_market_open ----
ClockTimes ==
    {<<0, 0, 0>>, <<9, 29, 59>>, <<9, 30, 0>>, <<9, 30, 1>>, <<12, 0, 0>>,
     <<15, 59, 59>>, <<16, 0, 0>>, <<16, 0, 1>>, <<16, 0, 59>>, <<16, 1, 0>>,
     <<23, 59, 59>>}
CalendarTimes == {At(d, c[1], c[2], c[3]) : d \in 0..6, c \in ClockTimes}

InitCalendar ==
    /\ mo_time \in CalendarTimes /\ mo_result = <<>>
    /\ AdjIdle /\ PtIdle /\ DdIdle /\ MainIdle /\ FbIdle /\ TxtIdle

CallIsMarketOpen ==
    /\ mo_result = <<>>
    /\ mo_result' = <<is_market_open(mo_time)>>
    /\ UNCHANGED <<mo_time, adjVars, ptVars, ddVars, mainVars>>
    /\ UNCHANGED <<FINBERT_PIPELINE, txtVars>>

NextCalendar == CallIsMarketOpen
SpecCalendar == InitCalendar /\ [][NextCalendar]_vars

\* ---- adjust_sentiment_for_trend ----
MaxTrendPct == 250
TrendInputs == {Rat(n, d) : n \in (-MaxTrendPct)..MaxTrendPct, d \in {1, 3}}

InitAdjust ==
    /\ adj_in \in TrendInputs /\ adj_out = <<>>
    /\ CalIdle /\ PtIdle /\ DdIdle /\ MainIdle /\ FbIdle /\ TxtIdle

CallAdjust ==
    /\ adj_out = <<>>
    /\ adj_out' = <<adjust_sentiment_for_trend(FromInt(0), adj_in)>>
    /\ UNCHANGED <<adj_in, calVars, ptVars, ddVars, mainVars>>
    /\ UNCHANGED <<FINBERT_PIPELINE, txtVars>>

NextAdjust == CallAdjust
SpecAdjust == InitAdjust /\ [][NextAdjust]_vars

\* ---- get_price_trend ----
TrendNewsTimes ==
    {At(2, 9, 29, 59), At(2, 9, 30, 0), At(2, 12, 0, 0), At(2, 12, 0, 30),
     At(2, 16, 0, 0), At(2, 16, 0, 30), At(2, 16, 1, 0), At(5, 12, 0, 0)}
\* The current time, as seconds after (before) the news time.
NowOffsets == {-60, 90, 330, 86400}

InitTrend ==
    /\ pt_in \in {[ticker |-> AAA, news_time |-> nt, current_time |-> nt + off] :
                     nt \in TrendNewsTimes, off \in NowOffsets}
    /\ pt_out = <<>>
    /\ CalIdle /\ AdjIdle /\ DdIdle /\ MainIdle /\ FbIdle /\ TxtIdle

\* One call; resp is what stock.history answers if it is asked.
CallGetPriceTrend ==
    /\ pt_out = <<>>
    /\ \E resp \in HistoryResponses(window_start(pt_in.news_time),
                                    window_end(pt_in.news_time, pt_in.current_time)) :
           pt_out' = <<[resp |-> resp,
                        res  |-> get_price_trend(pt_in.ticker, pt_in.news_time,
                                                 pt_in.current_time, resp)]>>
    /\ UNCHANGED <<pt_in, calVars, adjVars, ddVars, mainVars>>
    /\ UNCHANGED <<FINBERT_PIPELINE, txtVars>>

NextTrend == CallGetPriceTrend
SpecTrend == InitTrend /\ [][NextTrend]_vars

\* ---- remove_duplicates ----
MaxItems == 3
DedupTickers == {AAA, BBB, AA}
DedupStories == {<<"X", "Y">>, <<"X", "W">>}
DedupTimes == {At(2, 12, 0, 0), At(2, 12, 5, 0)}
DedupItems ==
    {[ticker |-> tk, publish_time |-> t, title |-> st[1], link |-> st[2]] :
        tk \in DedupTickers, t \in DedupTimes, st \in DedupStories}

InitDedup ==
    /\ dd_pc = "input"
    /\ dd_in \in UNION {[1..n -> DedupItems] : n \in 0..MaxItems}
    /\ dd_out = <<>>
    /\ dd_list = dd_in /\ dd_again = <<>>
    /\ CalIdle /\ AdjIdle /\ PtIdle /\ MainIdle /\ FbIdle /\ TxtIdle

CallRemoveDuplicates ==
    /\ dd_pc = "input"
    /\ dd_out' = remove_duplicates(dd_in)
    /\ dd_list' = list_after_call(dd_in)
    /\ dd_pc' = "done"
    /\ UNCHANGED <<dd_in, dd_again, calVars, adjVars, ptVars, mainVars>>
    /\ UNCHANGED <<FINBERT_PIPELINE, txtVars>>

\* A second call: on the list the first call returned, or on the caller's
\* list, whose dicts the first call has written to, in reverse order.
CallRemoveDuplicatesAgain ==
    /\ dd_pc = "done"
    /\ \E arg \in {[of |-> "output", list |-> dd_out],
                    [of |-> "same_dicts",
                     list |-> [i \in 1..Len(dd_list) |-> dd_list[Len(dd_list) + 1 - i]]]} :
           dd_again' = <<[arg |-> arg, out |-> remove_duplicates(arg.list)]>>
    /\ dd_pc' = "again"
    /\ UNCHANGED <<dd_in, dd_out, dd_list, calVars, adjVars, ptVars, mainVars>>
    /\ UNCHANGED <<FINBERT_PIPELINE, txtVars>>

NextDedup == CallRemoveDuplicates \/ CallRemoveDuplicatesAgain
SpecDedup == InitDedup /\ [][NextDedup]_vars

\* ---- chunk_text ----
MaxWords == 501
\* The texts of 0..MaxWords words; a word is named by its place in the text.
ChunkTexts == {[i \in 1..n |-> i] : n \in 0..MaxWords}

InitChunk ==
    /\ ck_text \in ChunkTexts /\ ck_out = <<>>
    /\ CalIdle /\ AdjIdle /\ PtIdle /\ DdIdle /\ MainIdle /\ FbIdle
    /\ ScIdle /\ CoIdle /\ AuxIdle

CallChunkText ==
    /\ ck_out = <<>>
    /\ ck_out' = <<chunk_text(ck_text, ChunkMaxLength)>>
    /\ UNCHANGED <<ck_text, scVars, coVars, auxVars, FINBERT_PIPELINE>>
    /\ UNCHANGED <<calVars, adjVars, ptVars, ddVars, mainVars>>

NextChunk == CallChunkText
SpecChunk == InitChunk /\ [][NextChunk]_vars

\* ---- a sequence of analyzer calls in one process ----
MaxCalls == 3
\* Texts of no word, one word and two chunks.
ScorerTexts == {text \in ChunkTexts : Len(text) \in {0, 1, 251}}

InitScorer ==
    /\ FINBERT_PIPELINE = FALSE
    /\ sc_calls = <<>> /\ sc_loads = <<>> /\ sc_last = <<>>
    /\ CalIdle /\ AdjIdle /\ PtIdle /\ DdIdle /\ MainIdle /\ CkIdle /\ CoIdle
    /\ AuxIdle

CallNltk ==
    /\ Len(sc_calls) < MaxCalls
    /\ \E text \in ScorerTexts, answer \in LexiconAnswers :
           sc_last' = <<[analyzer |-> "nltk", text |-> text, answer |-> answer,
                         loaded_before |-> FINBERT_PIPELINE,
                         out |-> get_nltk_sentiment(answer)]>>
    /\ sc_calls' = Append(sc_calls, "nltk")
    /\ UNCHANGED <<FINBERT_PIPELINE, sc_loads, ckVars, coVars, auxVars>>
    /\ UNCHANGED <<calVars, adjVars, ptVars, ddVars, mainVars>>

CallFinvader ==
    /\ Len(sc_calls) < MaxCalls
    /\ \E text \in ScorerTexts, answer \in LexiconAnswers :
           sc_last' = <<[analyzer |-> "finvader", text |-> text, answer |-> answer,
                         loaded_before |-> FINBERT_PIPELINE,
                         out |-> get_finvader_sentiment(answer)]>>
    /\ sc_calls' = Append(sc_calls, "finvader")
    /\ UNCHANGED <<FINBERT_PIPELINE, sc_loads, ckVars, coVars, auxVars>>
    /\ UNCHANGED <<calVars, adjVars, ptVars, ddVars, mainVars>>

CallFinbert ==
    /\ Len(sc_calls) < MaxCalls
    /\ \E text \in ScorerTexts :
       \E answer \in FinbertAnswers(text) :
           LET out == get_finbert_sentiment(FINBERT_PIPELINE, text, answer)
           IN  /\ sc_last' = <<[analyzer |-> "finbert", text |-> text,
                                answer |-> answer,
                                loaded_before |-> FINBERT_PIPELINE, out |-> out]>>
               /\ FINBERT_PIPELINE' = out.loaded
               /\ sc_loads' = sc_loads \o out.loads
    /\ sc_calls' = Append(sc_calls, "finbert")
    /\ UNCHANGED <<ckVars, coVars, auxVars>>
    /\ UNCHANGED <<calVars, adjVars, ptVars, ddVars, mainVars>>

NextScorer == CallNltk \/ CallFinvader \/ CallFinbert
SpecScorer == InitScorer /\ [][NextScorer]_vars

(***************************************************************************)
(* main() of "rss feed with sentiment analyzers" (lines 345-390)           *)
(***************************************************************************)
MaxNews == 2

\* The environment of one run. datetime.now(NY_TZ) is read by every feed
\* fetch and every trend call and never goes back.
NowVals == {At(2, 12, 3, 0), At(2, 13, 0, 0)}
CsvFiles ==
    {[error |-> "FileNotFoundError", tickers |-> <<>>],
     [error |-> "EmptyDataError", tickers |-> <<>>],
     [error |-> "KeyError", tickers |-> <<>>],
     [error |-> "none", tickers |-> <<>>],
     [error |-> "none", tickers |-> <<AAA>>],
     [error |-> "none", tickers |-> <<AAA, BBB>>]}
FeedStories == {<<"X", "Y">>, <<"Z", "W">>}

\* An aware datetime is [wall, off]: the wall-clock second and the UTC offset
\* it is read in; Instant is its second on the UTC axis. Aware datetimes
\* compare by their instants.
Instant(t) == t.wall - t.off
EDT == 0 - 4 * 3600
EST == 0 - 5 * 3600
\* America/New_York in the modelled week: daylight time until the Sunday that
\* ends the week, when 02:00 EDT is followed by 01:00 EST.
FallBack == At(6, 2, 0, 0) - EDT
NyOffset(instant) == IF instant < FallBack THEN EDT ELSE EST
\* t.astimezone(NY_TZ) (line 252).
astimezone_ny(t) ==
    [wall |-> Instant(t) + NyOffset(Instant(t)), off |-> NyOffset(Instant(t))]
\* datetime.now(NY_TZ) at an instant (line 249).
now_ny(instant) == astimezone_ny([wall |-> instant, off |-> 0])
\* .replace(hour=0, minute=0, second=0, microsecond=0) (line 249): the clock
\* fields change, the tzinfo and so the offset stay those of the argument.
replace_midnight(t) == [wall |-> (t.wall \div 86400) * 86400, off |-> t.off]
\* The instant of a wall-clock second of the run's clock, which is read before
\* the change of the offset.
InstantOfNow(wall) == wall - EDT

\* entry.published is "%a, %d %b %Y %H:%M:%S %z" with offset +0000: Tuesday
\* 23:00, Wednesday 08:00 (closed) and Wednesday 12:00 New York time.
FeedTimes ==
    {[wall |-> At(2, 3, 0, 0), off |-> 0], [wall |-> At(2, 12, 0, 0), off |-> 0],
     [wall |-> At(2, 16, 0, 0), off |-> 0]}

\* What the three analyzers (nltk, finvader, finbert) answer for a title and
\* for the text of a linked page: fixed per text, in tenths.
TitleScores(title) ==
    IF title = "X" THEN <<Rat(2, 10), Rat(-4, 10), Rat(6, 10)>>
    ELSE <<FromInt(-1), FromInt(0), Rat(1, 2)>>
BodyScores(link) ==
    IF link = "Y" THEN <<Rat(1, 2), Rat(1, 2), Rat(-1, 2)>>
    ELSE <<FromInt(0), Rat(-3, 10), FromInt(1)>>

\* The models answering with the given three scores, those named in fails
\* raising instead ("load": pipeline(...) raises if it is run).
AnswersWith(scores, fails) ==
    [nltk     |-> [raises |-> "nltk" \in fails, value |-> scores[1]],
     finvader |-> [raises |-> "finvader" \in fails, value |-> scores[2]],
     finbert  |-> [load_ok |-> "load" \notin fails,
                   results |-> <<[raises |-> "finbert" \in fails,
                                  label |-> IF scores[3][1] < 0 THEN "negative"
                                            ELSE "positive",
                                  score |-> Rat(Abs(scores[3][1]), scores[3][2])]>>]]
AnswersFor(scores) == AnswersWith(scores, {})

\* A title, and the text of a page, as the analyzers see it: one word.
WordsOf(text) == <<text>>

FeedEntries ==
    {[title |-> st[1], link |-> st[2], published |-> t, page_ok |-> ok,
      title_answers |-> AnswersFor(TitleScores(st[1])),
      body_answers |-> AnswersFor(BodyScores(st[2]))] :
        st \in FeedStories, t \in FeedTimes, ok \in BOOLEAN}

\* The entries feedparser.parse may return for one ticker: at most max
\* entries, no story twice in one feed.
Feeds(max) ==
    {f \in UNION {[1..n -> FeedEntries] : n \in 0..max} :
        \A i, j \in 1..Len(f) :
            i # j => <<f[i].title, f[i].link>> # <<f[j].title, f[j].link>>}

\* What feedparser.parse(url) does for one ticker: it returns entries (none
\* when it absorbs a failed request itself), or the failure of the request
\* leaves it as an exception (a connection closed while the answer is read).
FeedOutcomes(max) ==
    {[raises |-> TRUE, entries |-> <<>>]} \cup
    {[raises |-> FALSE, entries |-> f] : f \in Feeds(max)}

\* What the price feed answers in a run: an exception, no bars, the bars of
\* the minutes around the news (100 up to the news, 150 after it), or only the
\* bar after the news.
PipelineResponses(start, end_) ==
    LET first == ((start + 59) \div 60) * 60
        in_window(S) == {t \in S : start <= t /\ t < end_}
        around == in_window({first, first + 60 * 9, first + 60 * 11})
        after  == in_window({first + 60 * 11})
        ramp   == [t \in around |-> IF t <= start + 10 * 60 THEN 100 ELSE 150]
    IN  {[raises |-> TRUE, bars |-> <<>>],
         [raises |-> FALSE, bars |-> <<>>],
         [raises |-> FALSE, bars |-> BarSeq(around, ramp)],
         [raises |-> FALSE, bars |-> BarSeq(after, ramp)]}

\* The three body scores are set one by one: a failing analyzer does not
\* void the other two.
get_body_sentiment_partial(entry, loaded) ==
    LET nltk     == get_nltk_sentiment(entry.body_answers.nltk)
        finvader == get_finvader_sentiment(entry.body_answers.finvader)
        finbert  == get_finbert_sentiment(loaded, WordsOf(entry.link),
                                          entry.body_answers.finbert)
    IN  IF ~entry.page_ok
        THEN [scores |-> <<None, None, finbert.ret>>, loaded |-> finbert.loaded]
        ELSE [scores |-> <<nltk.ret, finvader.ret, finbert.ret>>,
              loaded |-> finbert.loaded]

\* get_body_sentiment (lines 205-230): three scores, or three nulls when the
\* page request or anything after it raises. loaded is FINBERT_PIPELINE after
\* the call.
get_body_sentiment(entry, loaded) ==
    LET nltk     == get_nltk_sentiment(entry.body_answers.nltk)
        finvader == get_finvader_sentiment(entry.body_answers.finvader)
        finbert  == get_finbert_sentiment(loaded, WordsOf(entry.link),
                                          entry.body_answers.finbert)
    IN  IF ~entry.page_ok \/ nltk.exc # "none"
        THEN [scores |-> <<None, None, None>>, loaded |-> loaded]
        ELSE [scores |-> <<nltk.ret, finvader.ret, finbert.ret>>,
              loaded |-> finbert.loaded]

\* One news item of fetch_yahoo_rss_news (lines 254-271), or the exception
\* that leaves the function. publish_time is written as "%Y-%m-%d %H:%M:%S"
\* (line 262) and read back and localized at line 371: the wall-clock
\* second, which is what a timestamp of the pipeline is.
news_item(ticker, entry, publish_time, loaded) ==
    LET nltk     == get_nltk_sentiment(entry.title_answers.nltk)
        finvader == get_finvader_sentiment(entry.title_answers.finvader)
        finbert  == get_finbert_sentiment(loaded, WordsOf(entry.title),
                                          entry.title_answers.finbert)
        body     == get_body_sentiment(entry, finbert.loaded)
    IN  IF nltk.exc # "none"
        THEN [exc |-> nltk.exc, item |-> <<>>, loaded |-> loaded]
        ELSE [exc |-> "none", loaded |-> body.loaded,
              item |-> <<[ticker |-> ticker, publish_time |-> publish_time.wall,
                  title |-> entry.title, link |-> entry.link,
                  nltk_title_sentiment |-> nltk.ret,
                  finvader_title_sentiment |-> finvader.ret,
                  finbert_title_sentiment |-> finbert.ret,
                  nltk_body_sentiment |-> body.scores[1],
                  finvader_body_sentiment |-> body.scores[2],
                  finbert_body_sentiment |-> body.scores[3]]>>]

\* The loop of lines 251-271 over the entries not yet seen.
RECURSIVE collect_entries(_, _, _, _, _)
collect_entries(ticker, today, entries, news_items, loaded) ==
    IF entries = <<>>
    THEN [exc |-> "none", items |-> news_items, loaded |-> loaded]
    ELSE LET entry == Head(entries)
             publish_time == astimezone_ny(entry.published)
         IN  IF Instant(publish_time) >= Instant(today)
             THEN LET r == news_item(ticker, entry, publish_time, loaded)
                  IN  IF r.exc # "none"
                      THEN [exc |-> r.exc, items |-> <<>>, loaded |-> r.loaded]
                      ELSE collect_entries(ticker, today, Tail(entries),
                                           news_items \o r.item, r.loaded)
             ELSE collect_entries(ticker, today, Tail(entries), news_items, loaded)

\* fetch_yahoo_rss_news (lines 245-273): the items of the entries published
\* at or after today, in feed order, or the exception that leaves it.
\* current_time is datetime.now(NY_TZ).
fetch_yahoo_rss_news(ticker, current_time, feed, loaded) ==
    IF feed.raises
    THEN [exc |-> "Exception", items |-> <<>>, loaded |-> loaded]
    ELSE collect_entries(ticker, replace_midnight(current_time), feed.entries,
                         <<>>, loaded)

\* sort_values('publish_time', ascending=False): the orders it may produce
\* (the order among equal times is not fixed by the sort).
SortedDescending(items) ==
    {[i \in 1..Len(items) |-> items[p[i]]] : p \in
        {q \in Permutations(1..Len(items)) :
            \A i \in 1..(Len(items) - 1) :
                items[q[i]].publish_time >= items[q[i + 1]].publish_time}}

\* A row sum in place of the row mean.
row_sum(vals) ==
    LET present == SelectSeq(vals, LAMBDA v : v # None)
    IN  IF Len(present) = 0 THEN None
        ELSE IF Len(present) = 1 THEN present[1]
        ELSE IF Len(present) = 2 THEN RAdd(present[1], present[2])
        ELSE RAdd(RAdd(present[1], present[2]), present[3])

\* DataFrame.mean(axis=1) over three columns: the mean of the values present
\* (skipna is on by default), NaN when none is.
row_mean(vals) ==
    LET present == SelectSeq(vals, LAMBDA v : v # None)
    IN  IF Len(present) = 0 THEN None
        ELSE IF Len(present) = 1 THEN present[1]
        ELSE IF Len(present) = 2
        THEN RDiv(RAdd(present[1], present[2]), FromInt(2))
        ELSE RDiv(RAdd(RAdd(present[1], present[2]), present[3]), FromInt(3))

\* Lines 377-385: the row of the output file.
output_row(item, trend) ==
    LET row == item @@ trend
    IN  row @@
        [aggregate_title_sentiment |->
             row_mean(<<row.nltk_title_sentiment, row.finvader_title_sentiment,
                        row.finbert_title_sentiment>>),
         aggregate_body_sentiment |->
             row_mean(<<row.nltk_body_sentiment, row.finvader_body_sentiment,
                        row.finbert_body_sentiment>>),
         aggregate_price_sentiment |->
             row_mean(<<row.nltk_price_sentiment, row.finvader_price_sentiment,
                        row.finbert_price_sentiment>>)]

\* The rows whose trend is not 'Open' are left out.
output_rows_dropna(df, trend_series) ==
    LET all == [i \in 1..Len(df) |-> output_row(df[i], trend_series[i])]
    IN  SelectSeq(all, LAMBDA row : row.market_status = "Open")

\* Lines 377-385 over the frame: the columns of the trends are added by row
\* label, so row i of news_df gets trend i, and every row gets its aggregates.
output_rows(df, trend_series) ==
    [i \in 1..Len(df) |-> output_row(df[i], trend_series[i])]

Init ==
    /\ pc = "start" /\ now \in NowVals
    /\ tickers = <<>> /\ tick_i = 1
    /\ all_news = <<>> /\ news_df = <<>> /\ trends = <<>>
    /\ price_calls = <<>> /\ output = <<>>
    /\ CalIdle /\ AdjIdle /\ PtIdle /\ DdIdle /\ FbIdle /\ TxtIdle

\* Lines 346-357: read the ticker universe, or report why not and return.
ReadCsv ==
    /\ pc = "start"
    /\ \E csv \in CsvFiles :
           IF csv.error # "none"
           THEN pc' = "csv_error" /\ UNCHANGED tickers
           ELSE pc' = "fetch" /\ tickers' = csv.tickers
    /\ UNCHANGED <<now, tick_i, all_news, news_df, trends, price_calls, output>>
    /\ UNCHANGED <<calVars, adjVars, ptVars, ddVars, txtVars, FINBERT_PIPELINE>>

\* Lines 360-364: one turn of the per-ticker loop. An exception of the fetch
\* is not handled in main and ends the run.
FetchTicker ==
    /\ pc = "fetch" /\ tick_i <= Len(tickers)
    /\ \E ct \in {t \in NowVals : t >= now} :
           /\ now' = ct
           /\ \E feed \in FeedOutcomes(MaxNews - Len(all_news)) :
                  LET r == fetch_yahoo_rss_news(tickers[tick_i],
                               now_ny(InstantOfNow(ct)), feed, FINBERT_PIPELINE)
                  IN  /\ FINBERT_PIPELINE' = r.loaded
                      /\ IF r.exc # "none"
                         THEN pc' = "crashed_fetch" /\ UNCHANGED <<all_news, tick_i>>
                         ELSE /\ all_news' = all_news \o r.items
                              /\ tick_i' = tick_i + 1
                              /\ UNCHANGED pc
    /\ UNCHANGED <<tickers, news_df, trends, price_calls, output>>
    /\ UNCHANGED <<calVars, adjVars, ptVars, ddVars, txtVars>>

\* Lines 366-372: stop when nothing was collected, else sort the items.
SortNews ==
    /\ pc = "fetch" /\ tick_i > Len(tickers)
    /\ IF all_news = <<>>
       THEN pc' = "no_news" /\ UNCHANGED news_df
       ELSE pc' = "trend" /\ news_df' \in SortedDescending(all_news)
    /\ UNCHANGED <<now, tickers, tick_i, all_news, trends, price_calls, output>>
    /\ UNCHANGED <<calVars, adjVars, ptVars, ddVars, txtVars, FINBERT_PIPELINE>>

\* Line 375: get_price_trend for the next row of news_df.
TrendRow ==
    /\ pc = "trend" /\ Len(trends) < Len(news_df)
    /\ LET row == news_df[Len(trends) + 1]
       IN  \E ct \in {t \in NowVals : t >= now} :
           \E resp \in PipelineResponses(window_start(row.publish_time),
                                         window_end(row.publish_time, ct)) :
               LET r == get_price_trend(row.ticker, row.publish_time, ct, resp)
               IN  /\ now' = ct
                   /\ IF r.exc # "none"
                      THEN pc' = "crashed" /\ UNCHANGED <<trends, price_calls>>
                      ELSE /\ trends' = Append(trends, r.ret)
                           /\ price_calls' = Append(price_calls,
                                  [requests |-> r.requests,
                                   responses |-> IF r.requests = <<>> THEN <<>>
                                                 ELSE <<resp>>])
                           /\ UNCHANGED pc
    /\ UNCHANGED <<tickers, tick_i, all_news, news_df, output>>
    /\ UNCHANGED <<calVars, adjVars, ptVars, ddVars, txtVars, FINBERT_PIPELINE>>

\* Lines 377-390: add the trend and aggregate columns and write the file.
WriteOutput ==
    /\ pc = "trend" /\ Len(trends) = Len(news_df)
    /\ output' = output_rows(news_df, trends)
    /\ pc' = "written"
    /\ UNCHANGED <<now, tickers, tick_i, all_news, news_df, trends, price_calls>>
    /\ UNCHANGED <<calVars, adjVars, ptVars, ddVars, txtVars, FINBERT_PIPELINE>>

Next == ReadCsv \/ FetchTicker \/ SortNews \/ TrendRow \/ WriteOutput
Spec == Init /\ [][Next]_vars

(***************************************************************************)
(* One call of fetch_yahoo_rss_news (lines 245-273) with failing parts     *)
(***************************************************************************)
MaxFeed == 2

\* The days of the calls: a Wednesday, and the Sunday daylight time ends on.
CollectorDays == {2, 6}
\* datetime.now: Wednesday 12:03 EDT, Sunday 10:00 EST.
CollectorNow(day) ==
    IF day = 6 THEN At(6, 10, 0, 0) - EST ELSE At(day, 12, 3, 0) - EDT
\* entry.published, offset +0000: 23:30 of the day before, 00:30 and 09:00 of
\* the day, on New York clocks showing daylight time.
CollectorTimes(day) ==
    [slot \in 1..3 |->
        [wall |-> At(day, 0, 0, 0) - EDT +
                      (IF slot = 1 THEN 0 - 1800 ELSE IF slot = 2 THEN 1800 ELSE 9 * 3600),
         off |-> 0]]
CollectorStories == <<<<"S", "T">>, <<"X", "Y">>, <<"Z", "W">>>>

\* What goes wrong while an entry is handled: nothing, one analyzer on the
\* title, the page request, one analyzer on the text of the page.
CollectorFaults ==
    {<<{}, TRUE, {}>>,
     <<{"nltk"}, TRUE, {}>>, <<{"finvader"}, TRUE, {}>>, <<{"finbert"}, TRUE, {}>>,
     <<{"load"}, TRUE, {}>>,
     <<{}, FALSE, {}>>,
     <<{}, TRUE, {"nltk"}>>, <<{}, TRUE, {"finvader"}>>, <<{}, TRUE, {"finbert"}>>}

\* Nothing goes wrong with the entry of the day before: it is not scored.
CollectorEntries(day) ==
    {[title |-> CollectorStories[c[1]][1], link |-> CollectorStories[c[1]][2],
      published |-> CollectorTimes(day)[c[1]], page_ok |-> c[2][2],
      title_answers |-> AnswersWith(TitleScores(CollectorStories[c[1]][1]), c[2][1]),
      body_answers |-> AnswersWith(BodyScores(CollectorStories[c[1]][2]), c[2][3])] :
        c \in {d \in (1..3) \X CollectorFaults : d[1] = 1 => d[2] = <<{}, TRUE, {}>>}}

CollectorFeeds(day) ==
    {[raises |-> TRUE, entries |-> <<>>]} \cup
    {[raises |-> FALSE, entries |-> f] :
        f \in UNION {[1..n -> CollectorEntries(day)] : n \in 0..MaxFeed}}

InitCollector ==
    /\ co_pc = "call"
    /\ \E day \in CollectorDays :
           co_in \in {[now |-> CollectorNow(day), feed |-> feed] :
                         feed \in CollectorFeeds(day)}
    /\ co_out = <<>>
    /\ FINBERT_PIPELINE = FALSE
    /\ CalIdle /\ AdjIdle /\ PtIdle /\ DdIdle /\ MainIdle /\ CkIdle /\ ScIdle
    /\ AuxIdle

CallFetchYahooRssNews ==
    /\ co_pc = "call"
    /\ LET r == fetch_yahoo_rss_news(AAA, now_ny(co_in.now), co_in.feed,
                                     FINBERT_PIPELINE)
       IN  /\ co_pc' = IF r.exc = "none" THEN "returned" ELSE "raised"
           /\ co_out' = r.items
           /\ FINBERT_PIPELINE' = r.loaded
    /\ UNCHANGED <<co_in, ckVars, scVars, auxVars>>
    /\ UNCHANGED <<calVars, adjVars, ptVars, ddVars, mainVars>>

NextCollector == CallFetchYahooRssNews
SpecCollector == InitCollector /\ [][NextCollector]_vars

(***************************************************************************)
(* Vocabulary of the properties                                            *)
(***************************************************************************)
\* Regular trading hours as the specification states them: Monday to Friday,
\* clock time to the second within [09:30:00, 16:00:00].
SecondOfDay(t) == t % 86400
InTradingHours(t) ==
    /\ Weekday(t) < 5
    /\ At(0, 9, 30, 0) <= SecondOfDay(t)
    /\ SecondOfDay(t) <= At(0, 16, 0, 0)

AllNull(r) ==
    /\ r.price_10_min_before = None /\ r.price_at_news = None /\ r.price_after = None
    /\ r.trend_before = None /\ r.trend_after = None

PriceSentimentsNull(r) ==
    /\ r.nltk_price_sentiment = None /\ r.finvader_price_sentiment = None
    /\ r.finbert_price_sentiment = None

\* text.split(','), the inverse of ','.join
RECURSIVE SplitComma(_)
SplitComma(s) ==
    IF \A i \in 1..Len(s) : <<s[i]>> # Comma THEN <<s>>
    ELSE LET i == CHOOSE j \in 1..Len(s) :
                      <<s[j]>> = Comma /\ \A m \in 1..(j - 1) : <<s[m]>> # Comma
         IN  <<SubSeq(s, 1, i - 1)>> \o SplitComma(SubSeq(s, i + 1, Len(s)))

\* The value the specification gives adjust(t), piece by piece:
\*   t >= 90: 1;  0 < t < 90: (10 + t)/100;  -90 < t <= 0: (t - 10)/100;
\*   t <= -90: -1.
IsAdjustOf(r, t) ==
    IF t[1] >= 90 * t[2] THEN r = FromInt(1)
    ELSE IF t[1] > 0 THEN r[1] * 100 * t[2] = r[2] * (10 * t[2] + t[1])
    ELSE IF t[1] > (-90) * t[2] THEN r[1] * 100 * t[2] = r[2] * (t[1] - 10 * t[2])
    ELSE r = FromInt(-1)

(***************************************************************************)
(* C1  remove_duplicates                                                   *)
(***************************************************************************)
DedupExampleIn ==
    <<[ticker |-> AAA, publish_time |-> At(2, 12, 0, 0), title |-> "X", link |-> "Y"],
      [ticker |-> BBB, publish_time |-> At(2, 12, 5, 0), title |-> "X", link |-> "Y"]>>

\* C1: the output of remove_duplicates holds exactly one item per distinct
\* (title, link) pair of the input; its publish_time is the minimum of the
\* pair's input items and its ticker is their tickers, duplicate-free, in
\* ascending order, joined by commas (AAA at T1 and BBB at T2 > T1 for the
\* same story give one item 'AAA,BBB' at T1).
C1_DedupContract ==
    dd_pc = "done" =>
        /\ \A i \in 1..Len(dd_in) :
               Cardinality({j \in 1..Len(dd_out) :
                                dd_out[j].title = dd_in[i].title
                                /\ dd_out[j].link = dd_in[i].link}) = 1
        /\ \A j \in 1..Len(dd_out) :
               LET grp == {i \in 1..Len(dd_in) :
                               dd_in[i].title = dd_out[j].title
                               /\ dd_in[i].link = dd_out[j].link}
                   parts == SplitComma(dd_out[j].ticker)
               IN  /\ grp # {}
                   /\ \E i \in grp : dd_in[i].publish_time = dd_out[j].publish_time
                   /\ \A i \in grp : dd_out[j].publish_time <= dd_in[i].publish_time
                   /\ {parts[p] : p \in 1..Len(parts)} = {dd_in[i].ticker : i \in grp}
                   /\ \A p \in 1..(Len(parts) - 1) : LexLess(parts[p], parts[p + 1])
        /\ (dd_in = DedupExampleIn =>
               dd_out = <<[ticker |-> AAA \o Comma \o BBB,
                           publish_time |-> At(2, 12, 0, 0),
                           title |-> "X", link |-> "Y"]>>)

\* Witness of C1: a story that ran later under BBB and earlier under AAA, with
\* another story beside it, has been merged.
C1_Witness ==
    /\ dd_pc = "done"
    /\ Len(dd_in) = 3 /\ Len(dd_out) = 2
    /\ \E i, j \in 1..Len(dd_in) :
           /\ i < j
           /\ dd_in[i].title = dd_in[j].title /\ dd_in[i].link = dd_in[j].link
           /\ dd_in[i].ticker = BBB /\ dd_in[j].ticker = AAA
           /\ dd_in[j].publish_time < dd_in[i].publish_time

(***************************************************************************)
(* C3  is_market_open                                                      *)
(***************************************************************************)
\* C3: is_market_open(t) is true exactly when t is a Monday-to-Friday time
\* whose clock time, to the second, lies in [09:30:00, 16:00:00].
C3_OpenIffTradingHours ==
    mo_result # <<>> => (mo_result[1] <=> InTradingHours(mo_time))

\* What the calendar does decide: the weekday, and the clock time to the
\* minute within 09:30 .. 16:00.
CalendarToTheMinute ==
    mo_result # <<>> =>
        (mo_result[1] <=>
            /\ Weekday(mo_time) < 5
            /\ At(0, 9, 30, 0) <= SecondOfDay(mo_time)
            /\ SecondOfDay(mo_time) <= At(0, 16, 0, 59))

(***************************************************************************)
(* C4  Closed results of get_price_trend                                   *)
(***************************************************************************)
\* C4: get_price_trend returns market_status 'Closed' with all prices and
\* trends null whenever news_time is outside trading hours, and whenever it is
\* inside trading hours and the feed returns an empty bar series.
C4_ClosedOutsideHoursOrEmpty ==
    pt_out # <<>> =>
        LET o == pt_out[1]
        IN  (\/ ~InTradingHours(pt_in.news_time)
             \/ (InTradingHours(pt_in.news_time) /\ ~o.resp.raises /\ o.resp.bars = <<>>))
            => (o.res.ret.market_status = "Closed" /\ AllNull(o.res.ret))

\* What holds of the code: the result is 'Closed' with nulls whenever
\* is_market_open itself answers no, and whenever it answers yes and the bar
\* series is empty.
ClosedWhenCalendarSaysClosedOrEmpty ==
    pt_out # <<>> =>
        LET o == pt_out[1]
        IN  (\/ ~is_market_open(pt_in.news_time)
             \/ (~o.resp.raises /\ o.resp.bars = <<>>))
            => (o.res.ret.market_status = "Closed" /\ AllNull(o.res.ret))

(***************************************************************************)
(* C6  Open results of get_price_trend                                     *)
(***************************************************************************)
HasBarAtOrBefore(bars, t) == \E i \in 1..Len(bars) : bars[i].t <= t

OpenValues(r, bars, nt) ==
    /\ r.market_status = "Open"
    /\ r.price_10_min_before = FromInt(bars[1].close)
    /\ r.price_after = FromInt(bars[Len(bars)].close)
    /\ \E i \in 1..Len(bars) :
           /\ bars[i].t <= nt
           /\ \A j \in 1..Len(bars) : bars[j].t <= nt => bars[j].t <= bars[i].t
           /\ r.price_at_news = FromInt(bars[i].close)
           /\ r.trend_before[1] * bars[1].close =
                  r.trend_before[2] * 100 * (bars[i].close - bars[1].close)
           /\ r.trend_after[1] * bars[i].close =
                  r.trend_after[2] * 100 * (bars[Len(bars)].close - bars[i].close)

\* C6 as stated: whenever news_time is inside trading hours and the returned
\* bar series is non-empty, the result is 'Open' with the first, as-of and
\* last closes and the two percentage trends.
C6_OpenWheneverBars ==
    pt_out # <<>> =>
        LET o == pt_out[1]
        IN  (InTradingHours(pt_in.news_time) /\ ~o.resp.raises /\ o.resp.bars # <<>>)
            => OpenValues(o.res.ret, o.resp.bars, pt_in.news_time)

\* C6 amended: the same, provided some bar is at or before news_time; when
\* every bar is later than news_time the as-of lookup fails and the result is
\* 'Error' with all numeric fields null.
C6_OpenWhenAsOfBarExists ==
    pt_out # <<>> =>
        LET o == pt_out[1]
            bars == o.resp.bars
        IN  (InTradingHours(pt_in.news_time) /\ ~o.resp.raises /\ bars # <<>>)
            => IF HasBarAtOrBefore(bars, pt_in.news_time)
               THEN OpenValues(o.res.ret, bars, pt_in.news_time)
               ELSE o.res.ret.market_status = "Error" /\ AllNull(o.res.ret)

\* Witness of C6: an Open result computed from three bars, the middle one
\* being the as-of bar, with a later bar present and all three closes
\* different.
C6_Witness ==
    /\ pt_out # <<>>
    /\ InTradingHours(pt_in.news_time)
    /\ pt_out[1].res.ret.market_status = "Open"
    /\ Len(pt_out[1].resp.bars) = 3
    /\ pt_out[1].resp.bars[2].t <= pt_in.news_time
    /\ pt_out[1].resp.bars[3].t > pt_in.news_time
    /\ pt_out[1].res.ret.price_at_news # pt_out[1].res.ret.price_10_min_before
    /\ pt_out[1].res.ret.price_at_news # pt_out[1].res.ret.price_after

(***************************************************************************)
(* C7  The requested window and minutes_after                              *)
(***************************************************************************)
\* C7: for an in-hours news_time one request is made, for the window from
\* news_time - 10 min to the earlier of news_time + 10 min and now; an Open
\* result reports minutes_after = the window's forward length in minutes,
\* which never exceeds 10.
C7_WindowAndMinutesAfter ==
    pt_out # <<>> =>
        LET o  == pt_out[1]
            nt == pt_in.news_time
            cur == pt_in.current_time
        IN  InTradingHours(nt) =>
              /\ Len(o.res.requests) = 1
              /\ o.res.requests[1].start + 600 = nt
              /\ o.res.requests[1].end_ <= nt + 600
              /\ o.res.requests[1].end_ <= cur
              /\ o.res.requests[1].end_ \in {nt + 600, cur}
              /\ o.res.ret.market_status = "Open" =>
                    /\ o.res.ret.minutes_after[1] * 60 =
                           o.res.ret.minutes_after[2] * (o.res.requests[1].end_ - nt)
                    /\ RLeq(o.res.ret.minutes_after, FromInt(10))

\* Witness of C7: an Open result whose window was cut short by the current
\* time, 90 seconds after the news: minutes_after is 3/2.
C7_Witness ==
    /\ pt_out # <<>>
    /\ InTradingHours(pt_in.news_time)
    /\ pt_in.current_time = pt_in.news_time + 90
    /\ pt_out[1].res.ret.market_status = "Open"
    /\ pt_out[1].res.ret.minutes_after = <<3, 2>>

(***************************************************************************)
(* C8  adjust_sentiment_for_trend                                          *)
(***************************************************************************)
\* C8: adjust(t) is clamp(0.1 + min(0.01 t, 1), -1, 1) for t > 0 and
\* clamp(-0.1 + max(0.01 t, -1), -1, 1) for t <= 0; it lies in [-1, 1];
\* adjust(0) = -0.1, adjust(50) = 0.6, adjust(-200) = -1.
C8_AdjustContract ==
    adj_out # <<>> =>
        /\ IsAdjustOf(adj_out[1], adj_in)
        /\ RLeq(FromInt(-1), adj_out[1]) /\ RLeq(adj_out[1], FromInt(1))
        /\ (adj_in = FromInt(0) => adj_out[1] = <<-1, 10>>)
        /\ (adj_in = FromInt(50) => adj_out[1] = <<3, 5>>)
        /\ (adj_in = FromInt(-200) => adj_out[1] = FromInt(-1))

\* Witness of C8: adjust has been applied to a zero trend.
C8_Witness == adj_out # <<>> /\ adj_in = FromInt(0) /\ adj_out[1] = <<-1, 10>>

(***************************************************************************)
(* C9  The three price-sentiment slots                                     *)
(***************************************************************************)
TextScores == {FromInt(-1), FromInt(0), Rat(1, 2), FromInt(1)}

\* C9: in every record get_price_trend returns, the nltk, finvader and
\* finbert price sentiments are the same value: adjust(trend_after) when the
\* status is 'Open', whatever text score is passed along, and null otherwise.
C9_PriceSentimentsIdentical ==
    pt_out # <<>> =>
        LET r == pt_out[1].res.ret
        IN  /\ r.nltk_price_sentiment = r.finvader_price_sentiment
            /\ r.finvader_price_sentiment = r.finbert_price_sentiment
            /\ IF r.market_status = "Open"
               THEN /\ IsAdjustOf(r.nltk_price_sentiment, r.trend_after)
                    /\ \A sc \in TextScores :
                           r.finbert_price_sentiment =
                               adjust_sentiment_for_trend(sc, r.trend_after)
               ELSE PriceSentimentsNull(r)

\* Witness of C9: an Open record whose trends before and after differ in
\* sign, with a price sentiment of 0.6 (trend_after = 50).
C9_Witness ==
    /\ pt_out # <<>>
    /\ pt_out[1].res.ret.market_status = "Open"
    /\ pt_out[1].res.ret.trend_after = FromInt(50)
    /\ RLt(pt_out[1].res.ret.trend_before, FromInt(0))
    /\ pt_out[1].res.ret.finbert_price_sentiment = <<3, 5>>

(***************************************************************************)
(* C2  Deduplication in the sentiment pipeline                             *)
(***************************************************************************)
StoriesOf(items) == {<<items[i].title, items[i].link>> : i \in 1..Len(items)}

\* C2: in the sentiment pipeline the collected items are deduplicated before
\* trends are sampled: a written output holds exactly one row per collected
\* (title, link) story, whose ticker lists every ticker that ran the story,
\* and one price trend was sampled per story.
C2_OneRowPerStory ==
    pc = "written" =>
        /\ \A st \in StoriesOf(all_news) :
               Cardinality({j \in 1..Len(output) :
                                <<output[j].title, output[j].link>> = st}) = 1
        /\ \A j \in 1..Len(output) :
               LET parts == SplitComma(output[j].ticker)
               IN  {parts[p] : p \in 1..Len(parts)} =
                       {all_news[i].ticker : i \in {k \in 1..Len(all_news) :
                            all_news[k].title = output[j].title
                            /\ all_news[k].link = output[j].link}}
        /\ Len(trends) = Cardinality(StoriesOf(all_news))

(***************************************************************************)
(* C5  Exceptions inside get_price_trend                                   *)
(***************************************************************************)
\* The feed's answer makes the try block of get_price_trend raise: the
\* request itself raises, or no bar is at or before the news time.
MakesTrendRaise(call, news_time) ==
    /\ call.responses # <<>>
    /\ \/ call.responses[1].raises
       \/ /\ call.responses[1].bars # <<>>
          /\ ~HasBarAtOrBefore(call.responses[1].bars, news_time)

\* C5: an exception raised while the bars are requested or the prices and
\* trends are computed yields the 'Error' record with all numeric fields
\* null; no exception leaves get_price_trend, so the rows after a failing one
\* still get their trend and the output holds every row.
C5_TrendErrorsContained ==
    /\ pc # "crashed"
    /\ Len(price_calls) = Len(trends)
    /\ \A i \in 1..Len(trends) :
           MakesTrendRaise(price_calls[i], news_df[i].publish_time) =>
               /\ trends[i].market_status = "Error"
               /\ AllNull(trends[i]) /\ trends[i].minutes_after = None
               /\ PriceSentimentsNull(trends[i])
    /\ pc = "written" => Len(output) = Len(news_df) /\ Len(trends) = Len(news_df)

\* Witness of C5: the first row's request raised, the second row was still
\* sampled ('Open'), and both rows were written.
C5_Witness ==
    /\ pc = "written" /\ Len(output) = 2
    /\ price_calls[1].responses # <<>> /\ price_calls[1].responses[1].raises
    /\ output[1].market_status = "Error"
    /\ output[2].market_status = "Open"

(***************************************************************************)
(* C10  Aggregate columns                                                  *)
(***************************************************************************)
IsMeanOf(agg, a, b, c) ==
    (a # None /\ b # None /\ c # None) =>
        /\ agg # None
        /\ RMul(FromInt(3), agg) = RAdd(RAdd(a, b), c)

\* C10: in every output row, aggregate_title_sentiment, aggregate_body_sentiment
\* and aggregate_price_sentiment are each the arithmetic mean of the row's
\* nltk, finvader and finbert scores of that group (0.2, -0.4, 0.6 give
\* 2/15 = 0.1333...).
C10_AggregateIsMean ==
    pc = "written" =>
        \A j \in 1..Len(output) :
            LET r == output[j]
            IN  /\ IsMeanOf(r.aggregate_title_sentiment, r.nltk_title_sentiment,
                            r.finvader_title_sentiment, r.finbert_title_sentiment)
                /\ IsMeanOf(r.aggregate_body_sentiment, r.nltk_body_sentiment,
                            r.finvader_body_sentiment, r.finbert_body_sentiment)
                /\ IsMeanOf(r.aggregate_price_sentiment, r.nltk_price_sentiment,
                            r.finvader_price_sentiment, r.finbert_price_sentiment)
                /\ (/\ r.nltk_title_sentiment = Rat(2, 10)
                    /\ r.finvader_title_sentiment = Rat(-4, 10)
                    /\ r.finbert_title_sentiment = Rat(6, 10))
                   => r.aggregate_title_sentiment = <<2, 15>>

\* Witness of C10: a written row with title scores 0.2, -0.4, 0.6, body scores
\* present and not all equal, and an 'Open' trend, so that all three
\* aggregates are means of three values.
C10_Witness ==
    /\ pc = "written"
    /\ \E j \in 1..Len(output) :
           /\ output[j].nltk_title_sentiment = <<1, 5>>
           /\ output[j].aggregate_title_sentiment = <<2, 15>>
           /\ output[j].nltk_body_sentiment # None
           /\ output[j].aggregate_body_sentiment = <<1, 6>>
           /\ output[j].market_status = "Open"
           /\ output[j].aggregate_price_sentiment = <<3, 5>>

(***************************************************************************)
(* Chunking before the transformer analyzer                                *)
(***************************************************************************)
RECURSIVE Flatten(_)
Flatten(seqs) == IF seqs = <<>> THEN <<>> ELSE Head(seqs) \o Flatten(Tail(seqs))

\* The length of a text in the units of max_length: lines 145-146 count a
\* word as two of them.
TextUnits(text) == 2 * Len(text)

\* C16 as stated: a text of at most 500 units is scored as one piece, a longer
\* one is split into consecutive chunks of at most 250 words that hold every
\* word once, in order.
C16_SplitOnlyAboveThreshold ==
    ck_out # <<>> =>
        LET chunks == ck_out[1]
        IN  /\ TextUnits(ck_text) <= ChunkMaxLength => chunks = <<ck_text>>
            /\ TextUnits(ck_text) > ChunkMaxLength =>
                   /\ Len(chunks) >= 2
                   /\ \A c \in 1..Len(chunks) : Len(chunks[c]) <= 250
                   /\ Flatten(chunks) = ck_text

\* C16 amended: a text without a word gives no chunk; a text of 1 to 250
\* words is one chunk; a longer text is split into ceil(n / 250) consecutive
\* chunks of 1 to 250 words; the chunks hold every word once, in order.
C16_ChunksOfWords ==
    ck_out # <<>> =>
        LET chunks == ck_out[1]
            n == Len(ck_text)
        IN  /\ n = 0 => chunks = <<>>
            /\ (1 <= n /\ n <= 250) => chunks = <<ck_text>>
            /\ n > 250 => Len(chunks) >= 2
            /\ Len(chunks) = (n + 249) \div 250
            /\ \A c \in 1..Len(chunks) :
                   Len(chunks[c]) >= 1 /\ Len(chunks[c]) <= 250
            /\ Flatten(chunks) = ck_text

C16_Witness ==
    /\ ck_out # <<>> /\ Len(ck_text) > 500
    /\ Len(ck_out[1]) >= 3 /\ Len(ck_out[1][1]) = 250

(***************************************************************************)
(* The analyzers' scores                                                   *)
(***************************************************************************)
InUnitRange(v) == RLeq(FromInt(-1), v) /\ RLeq(v, FromInt(1))

\* C14: every score an analyzer returns lies in [-1, 1], for every text (the
\* one without a word included), the 0.0 of a failure and the mean over the
\* chunks included, the models answering within their documented ranges.
C14_ScoresInUnitRange ==
    (sc_last # <<>> /\ sc_last[1].out.exc = "none") =>
        /\ sc_last[1].out.ret # None
        /\ InUnitRange(sc_last[1].out.ret)

\* A mean of two chunks at the upper end of the range.
C14_Witness ==
    /\ sc_last # <<>> /\ sc_last[1].analyzer = "finbert"
    /\ Len(sc_last[1].out.chunks) = 2 /\ ~sc_last[1].out.caught
    /\ sc_last[1].out.ret = FromInt(1)

\* The signed score the claim gives to a chunk answer.
SignedScore(result) ==
    CASE result.label = "positive" -> result.score
      [] result.label = "negative" -> Rat(-result.score[1], result.score[2])
      [] OTHER -> FromInt(0)

FinbertFails(call) ==
    \/ ~call.loaded_before /\ ~call.answer.load_ok
    \/ \E c \in 1..Len(call.answer.results) : call.answer.results[c].raises

\* C15: get_finbert_sentiment scores every chunk, maps positive to +score,
\* negative to -score and any other label to 0.0, and returns the mean of the
\* mapped values; 0.0 when there is no chunk, 0.0 when a step fails.
C15_FinbertMeanOfChunks ==
    (sc_last # <<>> /\ sc_last[1].analyzer = "finbert") =>
        LET call == sc_last[1]
            n == Len(call.answer.results)
        IN  /\ FinbertFails(call) => call.out.ret = FromInt(0)
            /\ (~FinbertFails(call) /\ n = 0) => call.out.ret = FromInt(0)
            /\ (~FinbertFails(call) /\ n > 0) =>
                   /\ Len(call.out.chunks) = n
                   /\ RMul(call.out.ret, FromInt(n)) =
                          RSum([c \in 1..n |-> SignedScore(call.answer.results[c])])

\* Two chunks, one negative with score 1 and one positive with score 1/2.
C15_Witness ==
    /\ sc_last # <<>> /\ sc_last[1].analyzer = "finbert"
    /\ ~FinbertFails(sc_last[1]) /\ Len(sc_last[1].answer.results) = 2
    /\ sc_last[1].answer.results[1].label = "negative"
    /\ sc_last[1].answer.results[2].label = "positive"
    /\ sc_last[1].out.ret = Rat(-1, 4)

FinbertCalls == SelectSeq(sc_calls, LAMBDA a : a = "finbert")

\* C17: in a sequence of analyzer calls nothing is loaded before the first
\* call of get_finbert_sentiment; a call runs pipeline(...) exactly when the
\* model is not loaded when it starts; the model is loaded at most once, and
\* once it is loaded no later call loads again.
C17_LazyInitAtMostOnce ==
    /\ FinbertCalls = <<>> => (sc_loads = <<>> /\ ~FINBERT_PIPELINE)
    /\ Len(sc_loads) <= Len(FinbertCalls)
    /\ \A i \in 1..(Len(sc_loads) - 1) : ~sc_loads[i]
    /\ FINBERT_PIPELINE <=> (sc_loads # <<>> /\ sc_loads[Len(sc_loads)])
    /\ (sc_last # <<>> /\ sc_last[1].analyzer = "finbert") =>
           /\ Len(sc_last[1].out.loads) = IF sc_last[1].loaded_before THEN 0 ELSE 1
           /\ sc_last[1].loaded_before => FINBERT_PIPELINE

\* Three calls of get_finbert_sentiment, the model loaded by the first.
C17_Witness ==
    /\ Len(FinbertCalls) = 3 /\ sc_loads = <<TRUE>> /\ FINBERT_PIPELINE
    /\ sc_last[1].loaded_before /\ ~sc_last[1].out.caught

(***************************************************************************)
(* Rows of the output and missing scores                                   *)
(***************************************************************************)
Restrict(f, S) == [x \in S |-> f[x]]
Count(seq, x) == Cardinality({i \in 1..Len(seq) : seq[i] = x})
Range(seq) == {seq[i] : i \in 1..Len(seq)}

\* C11: the trend and aggregation steps write one record per collected news
\* item, none dropped or duplicated, the record of an item holding the trend
\* computed for that item (its ticker, its publish time); a record whose trend
\* is 'Closed' or 'Error' is written too, with a null aggregate_price_sentiment.
C11_OneRecordPerItem ==
    pc = "written" =>
        /\ Len(output) = Len(all_news)
        /\ \A x \in Range(all_news) \cup Range(news_df) :
               Count(news_df, x) = Count(all_news, x)
        /\ Len(trends) = Len(news_df) /\ Len(price_calls) = Len(news_df)
        /\ \A i \in 1..Len(output) :
               /\ Restrict(output[i], DOMAIN news_df[i]) = news_df[i]
               /\ Restrict(output[i], DOMAIN trends[i]) = trends[i]
               /\ \A k \in 1..Len(price_calls[i].requests) :
                      /\ price_calls[i].requests[k].ticker = news_df[i].ticker
                      /\ price_calls[i].requests[k].start =
                             news_df[i].publish_time - 600
               /\ is_market_open(news_df[i].publish_time) <=>
                      price_calls[i].requests # <<>>
               /\ output[i].market_status \in {"Closed", "Error"} =>
                      output[i].aggregate_price_sentiment = None

\* Two rows for two items of different tickers, one 'Closed' and one 'Error'.
C11_Witness ==
    /\ pc = "written" /\ Len(output) = 2
    /\ output[1].ticker # output[2].ticker
    /\ {output[1].market_status, output[2].market_status} = {"Closed", "Error"}
    /\ price_calls[1].requests # <<>>

ScoreGroups ==
    {<<"nltk_title_sentiment", "finvader_title_sentiment", "finbert_title_sentiment",
       "aggregate_title_sentiment">>,
     <<"nltk_body_sentiment", "finvader_body_sentiment", "finbert_body_sentiment",
       "aggregate_body_sentiment">>,
     <<"nltk_price_sentiment", "finvader_price_sentiment", "finbert_price_sentiment",
       "aggregate_price_sentiment">>}

\* C12: in every record written, a category one of whose three analyzer
\* values is missing has a null aggregate: no aggregate is a mean over fewer
\* than three values.
C12_AggregateNeedsAllThree ==
    pc = "written" =>
        \A i \in 1..Len(output) : \A g \in ScoreGroups :
            (\E k \in 1..3 : output[i][g[k]] = None) => output[i][g[4]] = None

\* A row without body scores (the page request failed) and with title scores.
C12_Witness ==
    /\ pc = "written"
    /\ \E i \in 1..Len(output) :
           /\ output[i].nltk_body_sentiment = None
           /\ output[i].aggregate_body_sentiment = None
           /\ output[i].aggregate_title_sentiment # None
           /\ output[i].market_status = "Open"

\* C20 as stated: a failing feed, page or price request never ends the run:
\* the loop over the tickers and the loop over the items go on to their end.
C20_RequestFailuresNeverFatal ==
    /\ pc # "crashed_fetch" /\ pc # "crashed"
    /\ pc \in {"no_news", "trend", "written"} => tick_i > Len(tickers)

(***************************************************************************)
(* The news collector                                                      *)
(***************************************************************************)
\* The instant at which the New York clocks showed 00:00:00 of the day they
\* show at the given instant.
LocalMidnight(instant) ==
    LET m == (now_ny(instant).wall \div 86400) * 86400
    IN  CHOOSE u \in {m - EDT, m - EST} : astimezone_ny([wall |-> u, off |-> 0]).wall = m

\* The entries published at or after local midnight of the day of the call.
PublishedToday(entries, instant) ==
    SelectSeq(entries, LAMBDA e : Instant(e.published) >= LocalMidnight(instant))

\* The entries the loop of lines 251-271 scores.
Scored(entries, instant) ==
    SelectSeq(entries,
        LAMBDA e : Instant(e.published) >= Instant(replace_midnight(now_ny(instant))))

\* C18 as stated: fetch_yahoo_rss_news returns an item for an entry exactly
\* when the publish time of the entry, in New York time, is at or after local
\* midnight of the day of the call; a returned item has its three title scores.
C18_ItemIffPublishedToday ==
    co_pc = "returned" =>
        LET today == PublishedToday(co_in.feed.entries, co_in.now)
        IN  /\ Len(co_out) = Len(today)
            /\ \A i \in 1..Len(co_out) :
                   /\ co_out[i].title = today[i].title
                   /\ co_out[i].link = today[i].link
                   /\ co_out[i].publish_time = astimezone_ny(today[i].published).wall
                   /\ co_out[i].nltk_title_sentiment # None
                   /\ co_out[i].finvader_title_sentiment # None
                   /\ co_out[i].finbert_title_sentiment # None

\* On a day whose midnight and whose run have the same offset the filter of
\* line 253 is the one of C18.
FilterRightWithoutOffsetChange ==
    (co_pc = "returned" /\ NyOffset(co_in.now) = NyOffset(LocalMidnight(co_in.now))) =>
        Scored(co_in.feed.entries, co_in.now) =
            PublishedToday(co_in.feed.entries, co_in.now)

\* The score the claim gives to a lexicon analyzer: its own, 0.0 if it fails.
IsolatedScore(answer) == IF answer.raises THEN FromInt(0) ELSE answer.value
\* The scores the claim allows to the transformer on a one-chunk text: 0.0
\* if scoring fails, its own score if the model is or gets loaded, 0.0 if the
\* load is needed and fails.
IsolatedFinbertScores(answer) ==
    IF answer.results[1].raises THEN {FromInt(0)}
    ELSE IF answer.load_ok THEN {SignedScore(answer.results[1])}
    ELSE {FromInt(0), SignedScore(answer.results[1])}

IsolatedItems(entries, items) ==
    /\ Len(items) = Len(entries)
    /\ \A i \in 1..Len(items) :
           /\ items[i].link = entries[i].link
           /\ items[i].nltk_title_sentiment =
                  IsolatedScore(entries[i].title_answers.nltk)
           /\ items[i].finvader_title_sentiment =
                  IsolatedScore(entries[i].title_answers.finvader)
           /\ items[i].finbert_title_sentiment \in
                  IsolatedFinbertScores(entries[i].title_answers.finbert)
           /\ entries[i].page_ok =>
                  /\ items[i].nltk_body_sentiment =
                         IsolatedScore(entries[i].body_answers.nltk)
                  /\ items[i].finvader_body_sentiment =
                         IsolatedScore(entries[i].body_answers.finvader)
                  /\ items[i].finbert_body_sentiment \in
                         IsolatedFinbertScores(entries[i].body_answers.finbert)

\* C13 as stated: whichever analyzer fails on the title or the body of an
\* entry, its score for that text is 0.0, the other two analyzers give their
\* own scores and the item is produced.
C13_AnalyzerFailuresIsolated ==
    (co_pc \in {"returned", "raised"} /\ ~co_in.feed.raises) =>
        /\ co_pc = "returned"
        /\ IsolatedItems(Scored(co_in.feed.entries, co_in.now), co_out)

NltkFails(entry) ==
    entry.title_answers.nltk.raises \/ entry.body_answers.nltk.raises

\* The part of C13 the code keeps: the failures of finvader and of the
\* transformer are isolated.
FinvaderFinbertFailuresIsolated ==
    (/\ co_pc \in {"returned", "raised"} /\ ~co_in.feed.raises
     /\ \A i \in 1..Len(co_in.feed.entries) : ~NltkFails(co_in.feed.entries[i])) =>
        /\ co_pc = "returned"
        /\ IsolatedItems(Scored(co_in.feed.entries, co_in.now), co_out)

AnalyzerFails(entry) ==
    \/ NltkFails(entry)
    \/ entry.title_answers.finvader.raises \/ entry.body_answers.finvader.raises
    \/ entry.title_answers.finbert.results[1].raises
    \/ entry.body_answers.finbert.results[1].raises
    \/ ~entry.title_answers.finbert.load_ok

\* C19 as stated: an entry whose page request raises is skipped, it gives no
\* item, and the other entries of the ticker are returned (checked on the
\* calls in which no analyzer fails).
C19_FailedEntrySkipped ==
    (/\ co_pc \in {"returned", "raised"} /\ ~co_in.feed.raises
     /\ \A i \in 1..Len(co_in.feed.entries) : ~AnalyzerFails(co_in.feed.entries[i])) =>
        LET fetched == SelectSeq(Scored(co_in.feed.entries, co_in.now),
                                 LAMBDA e : e.page_ok)
        IN  /\ co_pc = "returned"
            /\ Len(co_out) = Len(fetched)
            /\ \A i \in 1..Len(co_out) : co_out[i].link = fetched[i].link

\* What the code does with such an entry: the item is returned, with its
\* title scores and three null body scores, in its place among the others.
PageFailureKeepsItem ==
    (/\ co_pc \in {"returned", "raised"} /\ ~co_in.feed.raises
     /\ \A i \in 1..Len(co_in.feed.entries) : ~AnalyzerFails(co_in.feed.entries[i])) =>
        LET scored == Scored(co_in.feed.entries, co_in.now)
        IN  /\ co_pc = "returned"
            /\ Len(co_out) = Len(scored)
            /\ \A i \in 1..Len(co_out) :
                   /\ co_out[i].link = scored[i].link
                   /\ co_out[i].nltk_title_sentiment # None
                   /\ ~scored[i].page_ok =>
                          /\ co_out[i].nltk_body_sentiment = None
                          /\ co_out[i].finvader_body_sentiment = None
                          /\ co_out[i].finbert_body_sentiment = None

(***************************************************************************)
(* process_news_data of src/data_processor.py and src/src/data_processor.py*)
(*                                                                         *)
(* A frame of news data is the set of its column names and the cells of    *)
(* its ticker column, one per row (no cell when the column is absent).     *)
(***************************************************************************)
Space == <<32>>

\* str.strip() on the characters: the spaces at both ends are removed.
RECURSIVE Strip(_)
Strip(s) ==
    IF s = <<>> THEN s
    ELSE IF <<Head(s)>> = Space THEN Strip(Tail(s))
    ELSE IF <<s[Len(s)]>> = Space THEN Strip(SubSeq(s, 1, Len(s) - 1))
    ELSE s

\* .str.split(','), explode and .str.strip(): one row per listed ticker.
RECURSIVE split_explode_strip(_)
split_explode_strip(cells) ==
    IF cells = <<>> THEN <<>>
    ELSE LET parts == SplitComma(Head(cells))
         IN  [k \in 1..Len(parts) |-> Strip(parts[k])] \o
             split_explode_strip(Tail(cells))

\* src/data_processor.py, lines 3-8: indexing an absent column raises
\* KeyError, which nothing in the function handles.
process_news_data(news_data) ==
    IF "Date" \notin news_data.columns \/ "Ticker" \notin news_data.columns
    THEN [exc |-> "KeyError", ret |-> <<>>]
    ELSE [exc |-> "none",
          ret |-> <<[columns |-> news_data.columns,
                     tickers |-> split_explode_strip(news_data.tickers)]>>]

\* The rename of lines 11-17 of src/src/data_processor.py.
rename_columns(columns) ==
    {IF c = "Title" THEN "News Title" ELSE IF c = "Url" THEN "News URL"
     ELSE IF c = "Ticker" THEN "TICKER" ELSE c : c \in columns}

\* src/src/data_processor.py, lines 3-31: the date is converted if the column
\* is there, the tickers are split if the column is there (a column read from
\* text has dtype object); the frame is returned in every case.
src_process_news_data(news_data) ==
    LET columns == rename_columns(news_data.columns)
    IN  [exc |-> "none",
         ret |-> <<[columns |-> columns,
                    tickers |-> IF "TICKER" \in columns
                                THEN split_explode_strip(news_data.tickers)
                                ELSE news_data.tickers]>>]

MaxRows == 2
ProcessColumns == {"Date", "Ticker", "Title", "Url"}
TickerCells == {AAA, AAA \o Comma \o BBB, AAA \o Comma \o Space \o BBB}
NewsFrames ==
    {[columns |-> cols, tickers |-> cells] :
        cols \in SUBSET ProcessColumns,
        cells \in UNION {[1..n -> TickerCells] : n \in 0..MaxRows}}
\* The frames a file can hold: cells of the ticker column only if it is there.
ReadableFrames ==
    {f \in NewsFrames : "Ticker" \notin f.columns => f.tickers = <<>>}

InitProcess ==
    /\ pr_in \in {[module |-> m, news_data |-> f] :
                     m \in {"data_processor", "src/data_processor"},
                     f \in ReadableFrames}
    /\ pr_out = <<>>
    /\ CalIdle /\ AdjIdle /\ PtIdle /\ DdIdle /\ MainIdle /\ FbIdle
    /\ CkIdle /\ ScIdle /\ CoIdle /\ ExIdle /\ ChIdle /\ ClIdle /\ DbIdle

CallProcessNewsData ==
    /\ pr_out = <<>>
    /\ pr_out' = <<IF pr_in.module = "data_processor"
                   THEN process_news_data(pr_in.news_data)
                   ELSE src_process_news_data(pr_in.news_data)>>
    /\ UNCHANGED <<pr_in, exVars, chVars, clVars, dbVars>>
    /\ UNCHANGED <<calVars, adjVars, ptVars, ddVars, mainVars, FINBERT_PIPELINE>>
    /\ UNCHANGED <<ckVars, scVars, coVars>>

NextProcess == CallProcessNewsData
SpecProcess == InitProcess /\ [][NextProcess]_vars

\* C21 as stated, for the processing of the news frame: when the date or the
\* ticker column is absent the processing stops with an error; it never
\* returns a frame and lets the run go on.
C21_MissingColumnStops ==
    (/\ pr_out # <<>>
     /\ \/ "Date" \notin pr_in.news_data.columns
        \/ "Ticker" \notin pr_in.news_data.columns) =>
        pr_out[1].exc # "none"

\* src/data_processor.py does stop on an absent column.
MissingColumnStopsInDataProcessor ==
    (/\ pr_out # <<>> /\ pr_in.module = "data_processor"
     /\ \/ "Date" \notin pr_in.news_data.columns
        \/ "Ticker" \notin pr_in.news_data.columns) =>
        pr_out[1].exc = "KeyError"

(***************************************************************************)
(* The two mains over the ticker list: the news checker (lines 61-98) and  *)
(* the sentiment pipeline (lines 345-369), with the time their per-ticker  *)
(* loops take. The clock counts seconds from the start of the run.         *)
(***************************************************************************)
MaxFetched == 2
CheckerMains == {"news_checker", "sentiment"}
CheckerTimes == {100, 200}
\* What one feed fetch can return: up to MaxFetched items of the ticker.
FetchedItems(ticker) ==
    UNION {[1..n -> {[ticker |-> ticker, publish_time |-> t,
                      title |-> st[1], link |-> st[2]] :
                         t \in CheckerTimes, st \in FeedStories}] :
              n \in 0..MaxFetched}
\* The seconds a feed fetch can take, to the whole second.
FetchDurations == {0, 3}

\* A sleep that can return at once.
sleep_returns_early(secs) == {0, secs}

\* time.sleep(secs): the seconds that pass, at least secs.
sleep(secs) == {secs, secs + 1}

InitChecker ==
    /\ ch_main \in CheckerMains
    /\ ch_pc = "start" /\ ch_tickers = <<>> /\ ch_i = 1
    /\ ch_all_news = <<>> /\ ch_output = <<>>
    /\ ch_clock = 0 /\ ch_log = <<>>
    /\ CalIdle /\ AdjIdle /\ PtIdle /\ DdIdle /\ MainIdle /\ FbIdle
    /\ CkIdle /\ ScIdle /\ CoIdle /\ PrIdle /\ ExIdle /\ ClIdle /\ DbIdle

\* Lines 63-74 and 346-357: the ticker list, or a message and the return.
ChReadCsv ==
    /\ ch_pc = "start"
    /\ \E csv \in CsvFiles :
           IF csv.error # "none"
           THEN ch_pc' = "csv_error" /\ UNCHANGED ch_tickers
           ELSE ch_pc' = "fetch" /\ ch_tickers' = csv.tickers
    /\ UNCHANGED <<ch_main, ch_i, ch_all_news, ch_output, ch_clock, ch_log>>
    /\ UNCHANGED <<prVars, exVars, clVars, dbVars>>
    /\ UNCHANGED <<calVars, adjVars, ptVars, ddVars, mainVars, FINBERT_PIPELINE>>
    /\ UNCHANGED <<ckVars, scVars, coVars>>

\* Lines 78-81 and 361-363: the fetch of one ticker and the extend. An
\* exception of the fetch is not handled and ends the run.
ChFetch ==
    /\ ch_pc = "fetch" /\ ch_i <= Len(ch_tickers)
    /\ \E d \in FetchDurations :
         /\ ch_clock' = ch_clock + d
         /\ ch_log' = Append(ch_log, [ticker |-> ch_tickers[ch_i],
                                      start |-> ch_clock, end |-> ch_clock + d])
    /\ \/ /\ \E news \in FetchedItems(ch_tickers[ch_i]) :
                ch_all_news' = ch_all_news \o news
          /\ ch_pc' = "sleep"
       \/ /\ ch_pc' = "crashed_fetch"
          /\ UNCHANGED ch_all_news
    /\ UNCHANGED <<ch_main, ch_tickers, ch_i, ch_output>>
    /\ UNCHANGED <<prVars, exVars, clVars, dbVars>>
    /\ UNCHANGED <<calVars, adjVars, ptVars, ddVars, mainVars, FINBERT_PIPELINE>>
    /\ UNCHANGED <<ckVars, scVars, coVars>>

\* Lines 82 and 364: time.sleep(1), then the next turn of the loop.
ChSleep ==
    /\ ch_pc = "sleep"
    /\ \E d \in sleep(1) : ch_clock' = ch_clock + d
    /\ ch_i' = ch_i + 1
    /\ ch_pc' = "fetch"
    /\ UNCHANGED <<ch_main, ch_tickers, ch_all_news, ch_output, ch_log>>
    /\ UNCHANGED <<prVars, exVars, clVars, dbVars>>
    /\ UNCHANGED <<calVars, adjVars, ptVars, ddVars, mainVars, FINBERT_PIPELINE>>
    /\ UNCHANGED <<ckVars, scVars, coVars>>

\* After the loop. The news checker (lines 84-94) removes the duplicates,
\* sorts by publish_time and writes the file: sort_values on the frame of no
\* items, which has no column, raises KeyError. The sentiment pipeline (lines
\* 366-369) reports and returns when the frame is empty and goes on to the
\* analysis otherwise.
ChAfterLoop ==
    /\ ch_pc = "fetch" /\ ch_i > Len(ch_tickers)
    /\ IF ch_main = "news_checker"
       THEN LET unique_news == remove_duplicates(ch_all_news)
            IN  IF unique_news = <<>>
                THEN ch_pc' = "crashed_sort" /\ UNCHANGED ch_output
                ELSE /\ ch_pc' = "written"
                     /\ \E sorted \in SortedDescending(unique_news) :
                            ch_output' = <<sorted>>
       ELSE /\ ch_pc' = IF ch_all_news = <<>> THEN "no_news" ELSE "analysis"
            /\ UNCHANGED ch_output
    /\ UNCHANGED <<ch_main, ch_tickers, ch_i, ch_all_news, ch_clock, ch_log>>
    /\ UNCHANGED <<prVars, exVars, clVars, dbVars>>
    /\ UNCHANGED <<calVars, adjVars, ptVars, ddVars, mainVars, FINBERT_PIPELINE>>
    /\ UNCHANGED <<ckVars, scVars, coVars>>

NextChecker == ChReadCsv \/ ChFetch \/ ChSleep \/ ChAfterLoop
SpecChecker == InitChecker /\ [][NextChecker]_vars

\* The loop of the run is over and no fetch has yielded an item.
LoopOverWithoutItems ==
    /\ ch_pc \in {"no_news", "analysis", "written", "crashed_sort"}
    /\ ch_all_news = <<>>

\* C22 as stated: a run whose feeds yield no item ends normally, reporting
\* that there are no items; it raises no error and writes no file.
C22_NoItemsEndsNormally ==
    LoopOverWithoutItems => (ch_pc = "no_news" /\ ch_output = <<>>)

\* The sentiment pipeline does end such a run by reporting it.
NoItemsEndsNormallyInSentiment ==
    (LoopOverWithoutItems /\ ch_main = "sentiment") =>
        (ch_pc = "no_news" /\ ch_output = <<>>)

\* In the sentiment pipeline the run without items samples no price trend and
\* writes no file.
NoItemsSamplesNoTrend ==
    pc = "no_news" => (price_calls = <<>> /\ output = <<>>)

\* C23: the feed fetches of a run are sequential and at least one second
\* passes between the end of one ticker's fetch and the start of the next.
C23_PacedSequentialFetches ==
    /\ \A k \in 1..Len(ch_log) : ch_log[k].start <= ch_log[k].end
    /\ \A k \in 1..(Len(ch_log) - 1) :
           ch_log[k + 1].start >= ch_log[k].end + 1
    /\ (ch_pc = "fetch" /\ ch_i > 1) => ch_clock >= ch_log[Len(ch_log)].end + 1

C23_Witness ==
    /\ Len(ch_log) = 2
    /\ ch_log[1].ticker = AAA /\ ch_log[2].ticker = BBB
    /\ ch_log[1].end = 3 /\ ch_log[2].start = 4

(***************************************************************************)
(* clean_text (lines 136-141). A text is the sequence of its character     *)
(* codes.                                                                  *)
(***************************************************************************)
\* [A-Za-z0-9]
IsAlnum(c) == c \in (65..90) \cup (97..122) \cup (48..57)
\* The whitespace of \s and of str.split(): the same characters in both, of
\* which the model has the space, the tab, the newline and the no-break space.
IsSpace(c) == c \in {32, 9, 10, 160}

\* re.sub(r'[^A-Za-z0-9\s]', ' ', text)
sub_other_by_space(text) ==
    [i \in 1..Len(text) |->
        IF IsAlnum(text[i]) \/ IsSpace(text[i]) THEN text[i] ELSE 32]

\* text.split(): the maximal runs of characters that are not whitespace.
RECURSIVE split(_)
split(text) ==
    IF text = <<>> THEN <<>>
    ELSE IF IsSpace(Head(text)) THEN split(Tail(text))
    ELSE LET n == CHOOSE k \in 1..Len(text) :
                      /\ \A i \in 1..k : ~IsSpace(text[i])
                      /\ k < Len(text) => IsSpace(text[k + 1])
         IN  <<SubSeq(text, 1, n)>> \o split(SubSeq(text, n + 1, Len(text)))

\* The substitution alone, without the split and the join.
clean_text_sub_only(text) == sub_other_by_space(text)

clean_text(text) == Join(split(sub_other_by_space(text)), Space)

MaxText == 4
\* A, z, 0, the whitespace, '!', e acute.
CleanChars == {65, 122, 48, 32, 9, 10, 160, 33, 233}
CleanTexts == UNION {[1..n -> CleanChars] : n \in 0..MaxText}

InitClean ==
    /\ cl_in \in CleanTexts
    /\ cl_out = <<>>
    /\ CalIdle /\ AdjIdle /\ PtIdle /\ DdIdle /\ MainIdle /\ FbIdle
    /\ CkIdle /\ ScIdle /\ CoIdle /\ PrIdle /\ ExIdle /\ ChIdle /\ DbIdle

CallCleanText ==
    /\ cl_out = <<>>
    /\ cl_out' = <<clean_text(cl_in)>>
    /\ UNCHANGED <<cl_in, prVars, exVars, chVars, dbVars>>
    /\ UNCHANGED <<calVars, adjVars, ptVars, ddVars, mainVars, FINBERT_PIPELINE>>
    /\ UNCHANGED <<ckVars, scVars, coVars>>

NextClean == CallCleanText
SpecClean == InitClean /\ [][NextClean]_vars

\* C24: clean_text returns, for every text, a text of letters, digits and
\* single spaces that neither starts nor ends with a space; the empty text
\* gives the empty text.
C24_CleanTextNormalForm ==
    cl_out # <<>> =>
        LET out == cl_out[1]
        IN  /\ \A i \in 1..Len(out) : IsAlnum(out[i]) \/ out[i] = 32
            /\ \A i \in 1..(Len(out) - 1) : ~(out[i] = 32 /\ out[i + 1] = 32)
            /\ out # <<>> => (out[1] # 32 /\ out[Len(out)] # 32)
            /\ cl_in = <<>> => out = <<>>

C24_Witness ==
    /\ cl_in = <<65, 33, 9, 48>>
    /\ cl_out = <<(<<65, 32, 48>>)>>

(***************************************************************************)
(* get_price_trend: the shape of the record, the requests, the window      *)
(***************************************************************************)
TrendFields ==
    {"price_10_min_before", "price_at_news", "price_after", "trend_before",
     "trend_after", "minutes_after", "market_status", "nltk_price_sentiment",
     "finvader_price_sentiment", "finbert_price_sentiment"}
ValueFields == TrendFields \ {"market_status"}

\* C25: every record get_price_trend returns has the same ten fields; its nine
\* value fields are all non-null exactly when market_status is 'Open' and all
\* null when it is 'Closed' or 'Error'.
C25_RecordShapeFollowsStatus ==
    pt_out # <<>> =>
        LET r == pt_out[1].res.ret
        IN  /\ DOMAIN r = TrendFields
            /\ r.market_status \in {"Open", "Closed", "Error"}
            /\ r.market_status = "Open" <=> (\A f \in ValueFields : r[f] # None)
            /\ r.market_status # "Open" => (\A f \in ValueFields : r[f] = None)

C25_Witness ==
    /\ pt_out # <<>>
    /\ pt_out[1].res.ret.market_status = "Error"
    /\ pt_out[1].res.caught = "KeyError"
    /\ \A f \in ValueFields : pt_out[1].res.ret[f] = None

\* C26 as stated: a price-bar request is made only for a news_time inside
\* trading hours, none outside them and exactly one inside them.
C26_RequestIffInTradingHours ==
    pt_out # <<>> =>
        Len(pt_out[1].res.requests) =
            (IF InTradingHours(pt_in.news_time) THEN 1 ELSE 0)

\* What holds of the code: one request when is_market_open says yes, none
\* when it says no.
RequestIffCalendarOpen ==
    pt_out # <<>> =>
        Len(pt_out[1].res.requests) =
            (IF is_market_open(pt_in.news_time) THEN 1 ELSE 0)

\* C27 as stated: the requested window contains news_time and every 'Open'
\* result has minutes_after between 0 and 10, whatever the current time.
C27_WindowContainsNewsTime ==
    pt_out # <<>> =>
        LET o == pt_out[1].res
        IN  /\ \A k \in 1..Len(o.requests) :
                   /\ o.requests[k].start <= pt_in.news_time
                   /\ pt_in.news_time <= o.requests[k].end_
            /\ o.ret.market_status = "Open" =>
                   /\ RLeq(FromInt(0), o.ret.minutes_after)
                   /\ RLeq(o.ret.minutes_after, FromInt(10))

\* What holds of the code: the same, for a news_time that is not later than
\* the current time.
WindowContainsPastNewsTime ==
    (pt_out # <<>> /\ pt_in.news_time <= pt_in.current_time) =>
        LET o == pt_out[1].res
        IN  /\ \A k \in 1..Len(o.requests) :
                   /\ o.requests[k].start <= pt_in.news_time
                   /\ pt_in.news_time <= o.requests[k].end_
            /\ o.ret.market_status = "Open" =>
                   /\ RLeq(FromInt(0), o.ret.minutes_after)
                   /\ RLeq(o.ret.minutes_after, FromInt(10))

(***************************************************************************)
(* remove_duplicates applied twice and to reordered lists                  *)
(***************************************************************************)
Records(items) == {items[i] : i \in 1..Len(items)}
Permuted(items) ==
    {[i \in 1..Len(items) |-> items[p[i]]] : p \in Permutations(1..Len(items))}

\* C28: remove_duplicates applied to its own output returns the same items
\* with the same ticker strings, and applied to any permutation of an input
\* list it yields the same set of (title, link, publish_time, ticker) records.
C28_IdempotentAndOrderIndependent ==
    /\ (dd_pc = "again" /\ dd_again[1].arg.of = "output") =>
           dd_again[1].out = dd_out
    /\ dd_pc = "done" =>
           \A other \in Permuted(dd_in) :
               Records(remove_duplicates(other)) = Records(dd_out)

\* Witness of C28: the second call on an output in which two tickers were
\* combined, for an input that has other orders.
C28_Witness ==
    /\ dd_pc = "again" /\ dd_again[1].arg.of = "output"
    /\ Len(dd_in) = 3 /\ Len(dd_out) = 2
    /\ \E j \in 1..Len(dd_out) : dd_out[j].ticker = AAA \o Comma \o BBB
    /\ dd_in[1].ticker = BBB
    /\ dd_again[1].out = dd_out

\* The caller's own dicts, handed in again in another order, can give another
\* ticker string: the first call has written the combined ticker into them.
SameDictsAgainDiffer ==
    /\ dd_pc = "again" /\ dd_again[1].arg.of = "same_dicts"
    /\ Records(dd_again[1].out) # Records(dd_out)

(***************************************************************************)
(* main() of the screener/news export (src/main.py, with                   *)
(* src/src/data_fetcher.py, src/data_processor.py and fetch_current_prices)*)
(*                                                                         *)
(* A data set is a frame with the run that saved it; a variable or a file  *)
(* that holds none is None, one that holds the frame f is <<f>>.           *)
(***************************************************************************)
ExportColumns == {"Date", "Ticker", "Title"}
ExportNews(run) ==
    {[columns |-> ExportColumns, tickers |-> <<AAA>>, run |-> run],
     [columns |-> ExportColumns, tickers |-> <<AAA \o Comma \o Space \o BBB, AAA>>,
      run |-> run],
     [columns |-> {"Date", "Title"}, tickers |-> <<>>, run |-> run],
     [columns |-> {"Date", "Ticker"}, tickers |-> <<BBB>>, run |-> run]}
ExportScreener(run) ==
    {[columns |-> {"Ticker", "Relative Volume", "Price"}, run |-> run],
     [columns |-> {"Ticker"}, run |-> run]}
\* What requests.get and the parse of the answer can come to.
FetchOutcomes(frames) ==
    {[exc |-> "none", df |-> f] : f \in frames} \cup
    {[exc |-> "RequestException", df |-> None], [exc |-> "ParserError", df |-> None]}

\* Both data sets are missing.
both_missing(news_data, screener_data) == news_data = None /\ screener_data = None

\* news_data is None or screener_data is None (lines 13 and 18).
either_missing(news_data, screener_data) == news_data = None \/ screener_data = None

\* load_data (src/src/data_fetcher.py, 26-31): the saved frame, None if the
\* file is not there.
load_data(files, file_name) == files[file_name]

\* merged_data['Ticker'].unique(): the distinct tickers as they first appear.
RECURSIVE unique(_)
unique(s) ==
    IF s = <<>> THEN <<>>
    ELSE LET front == unique(SubSeq(s, 1, Len(s) - 1))
         IN  IF \E i \in 1..Len(front) : front[i] = s[Len(s)] THEN front
             ELSE Append(front, s[Len(s)])

InitExport ==
    /\ ex_pc = "fetch_news"
    /\ ex_env \in {[files |-> [NEWS_FILE |-> n, SCREENER_FILE |-> s],
                    fetched |-> [news |-> "", screener |-> ""]] :
                      n \in {None} \cup {<<f>> : f \in ExportNews("earlier")},
                      s \in {None} \cup {<<f>> : f \in ExportScreener("earlier")}}
    /\ ex_news_data = None /\ ex_screener_data = None
    /\ ex_price_requests = <<>> /\ ex_output = <<>>
    /\ CalIdle /\ AdjIdle /\ PtIdle /\ DdIdle /\ MainIdle /\ FbIdle
    /\ CkIdle /\ ScIdle /\ CoIdle /\ PrIdle /\ ChIdle /\ ClIdle /\ DbIdle

\* export_news_data (lines 9, data_fetcher 6-20): the frame is saved and
\* returned; a RequestException gives None; any other exception is not
\* handled and ends the run.
ExFetchNews ==
    /\ ex_pc = "fetch_news"
    /\ \E o \in FetchOutcomes(ExportNews("this")) :
         IF o.exc = "none"
         THEN /\ ex_news_data' = <<o.df>>
              /\ ex_env' = [ex_env EXCEPT !.files.NEWS_FILE = <<o.df>>,
                                          !.fetched.news = "ok"]
              /\ ex_pc' = "fetch_screener"
         ELSE IF o.exc = "RequestException"
         THEN /\ ex_news_data' = None
              /\ ex_env' = [ex_env EXCEPT !.fetched.news = "failed"]
              /\ ex_pc' = "fetch_screener"
         ELSE /\ ex_pc' = "crashed_fetch"
              /\ UNCHANGED <<ex_news_data, ex_env>>
    /\ UNCHANGED <<ex_screener_data, ex_price_requests, ex_output>>
    /\ UNCHANGED <<prVars, chVars, clVars, dbVars>>
    /\ UNCHANGED <<calVars, adjVars, ptVars, ddVars, mainVars, FINBERT_PIPELINE>>
    /\ UNCHANGED <<ckVars, scVars, coVars>>

\* export_screener_data (line 11).
ExFetchScreener ==
    /\ ex_pc = "fetch_screener"
    /\ \E o \in FetchOutcomes(ExportScreener("this")) :
         IF o.exc = "none"
         THEN /\ ex_screener_data' = <<o.df>>
              /\ ex_env' = [ex_env EXCEPT !.files.SCREENER_FILE = <<o.df>>,
                                          !.fetched.screener = "ok"]
              /\ ex_pc' = "check_fetched"
         ELSE IF o.exc = "RequestException"
         THEN /\ ex_screener_data' = None
              /\ ex_env' = [ex_env EXCEPT !.fetched.screener = "failed"]
              /\ ex_pc' = "check_fetched"
         ELSE /\ ex_pc' = "crashed_fetch"
              /\ UNCHANGED <<ex_screener_data, ex_env>>
    /\ UNCHANGED <<ex_news_data, ex_price_requests, ex_output>>
    /\ UNCHANGED <<prVars, chVars, clVars, dbVars>>
    /\ UNCHANGED <<calVars, adjVars, ptVars, ddVars, mainVars, FINBERT_PIPELINE>>
    /\ UNCHANGED <<ckVars, scVars, coVars>>

\* Lines 13-16: if a fetch gave None, both data sets are read from the files.
ExCheckFetched ==
    /\ ex_pc = "check_fetched"
    /\ IF either_missing(ex_news_data, ex_screener_data)
       THEN /\ ex_news_data' = load_data(ex_env.files, "NEWS_FILE")
            /\ ex_screener_data' = load_data(ex_env.files, "SCREENER_FILE")
       ELSE UNCHANGED <<ex_news_data, ex_screener_data>>
    /\ ex_pc' = "check_loaded"
    /\ UNCHANGED <<ex_env, ex_price_requests, ex_output>>
    /\ UNCHANGED <<prVars, chVars, clVars, dbVars>>
    /\ UNCHANGED <<calVars, adjVars, ptVars, ddVars, mainVars, FINBERT_PIPELINE>>
    /\ UNCHANGED <<ckVars, scVars, coVars>>

\* Lines 18-20: the message and the return when a data set is still missing.
ExCheckLoaded ==
    /\ ex_pc = "check_loaded"
    /\ ex_pc' = IF either_missing(ex_news_data, ex_screener_data)
                THEN "missing" ELSE "process"
    /\ UNCHANGED <<ex_env, ex_news_data, ex_screener_data, ex_price_requests, ex_output>>
    /\ UNCHANGED <<prVars, chVars, clVars, dbVars>>
    /\ UNCHANGED <<calVars, adjVars, ptVars, ddVars, mainVars, FINBERT_PIPELINE>>
    /\ UNCHANGED <<ckVars, scVars, coVars>>

\* Lines 25-27: process_news_data and merge_data; a KeyError of either (an
\* absent column) is not handled and ends the run.
ExProcess ==
    /\ ex_pc = "process"
    /\ LET r == process_news_data(ex_news_data[1])
       IN  IF r.exc # "none"
              \/ ~({"Ticker", "Relative Volume", "Price"} \subseteq ex_screener_data[1].columns)
           THEN ex_pc' = "crashed_process" /\ UNCHANGED ex_news_data
           ELSE ex_pc' = "prices" /\ ex_news_data' = r.ret
    /\ UNCHANGED <<ex_env, ex_screener_data, ex_price_requests, ex_output>>
    /\ UNCHANGED <<prVars, chVars, clVars, dbVars>>
    /\ UNCHANGED <<calVars, adjVars, ptVars, ddVars, mainVars, FINBERT_PIPELINE>>
    /\ UNCHANGED <<ckVars, scVars, coVars>>

\* Lines 29-31 and price_fetcher 3-21: one price request per distinct ticker;
\* a request that fails or finds nothing gives no price for the ticker.
ExFetchPrices ==
    /\ ex_pc = "prices"
    /\ LET unique_tickers == unique(ex_news_data[1].tickers)
       IN  \E price \in [1..Len(unique_tickers) -> {None, <<1>>}] :
               ex_price_requests' =
                   [k \in 1..Len(unique_tickers) |->
                       [ticker |-> unique_tickers[k], price |-> price[k]]]
    /\ ex_pc' = "final"
    /\ UNCHANGED <<ex_env, ex_news_data, ex_screener_data, ex_output>>
    /\ UNCHANGED <<prVars, chVars, clVars, dbVars>>
    /\ UNCHANGED <<calVars, adjVars, ptVars, ddVars, mainVars, FINBERT_PIPELINE>>
    /\ UNCHANGED <<ckVars, scVars, coVars>>

\* Lines 33-40: the trends, the final columns (a KeyError if 'Title' is
\* absent) and the output file, one row per ticker of the news.
ExWriteOutput ==
    /\ ex_pc = "final"
    /\ IF "Title" \notin ex_news_data[1].columns
       THEN ex_pc' = "crashed_final" /\ UNCHANGED ex_output
       ELSE /\ ex_pc' = "written"
            /\ ex_output' =
                <<[k \in 1..Len(ex_news_data[1].tickers) |->
                     LET req == CHOOSE q \in Range(ex_price_requests) :
                                    q.ticker = ex_news_data[1].tickers[k]
                     IN  [TICKER |-> req.ticker, current_price |-> req.price]]>>
    /\ UNCHANGED <<ex_env, ex_news_data, ex_screener_data, ex_price_requests>>
    /\ UNCHANGED <<prVars, chVars, clVars, dbVars>>
    /\ UNCHANGED <<calVars, adjVars, ptVars, ddVars, mainVars, FINBERT_PIPELINE>>
    /\ UNCHANGED <<ckVars, scVars, coVars>>

NextExport ==
    \/ ExFetchNews \/ ExFetchScreener \/ ExCheckFetched \/ ExCheckLoaded
    \/ ExProcess \/ ExFetchPrices \/ ExWriteOutput
SpecExport == InitExport /\ [][NextExport]_vars

\* A fetch of the run has returned None.
AFetchFailed ==
    ex_env.fetched.news = "failed" \/ ex_env.fetched.screener = "failed"

\* C29: the output file is written only if both data sets are available; if
\* a fetch failed both are re-read from the saved files; if one is then still
\* missing the run ends with no price fetched and no output file.
C29_OutputOnlyWithBothDataSets ==
    /\ (ex_output # <<>> \/ ex_price_requests # <<>>
        \/ ex_pc \in {"process", "prices", "final", "written"}) =>
           (ex_news_data # None /\ ex_screener_data # None)
    /\ (ex_pc = "check_loaded" /\ AFetchFailed) =>
           /\ ex_news_data = ex_env.files.NEWS_FILE
           /\ ex_screener_data = ex_env.files.SCREENER_FILE
    /\ (ex_pc = "check_loaded" /\ ~AFetchFailed) =>
           (ex_news_data[1].run = "this" /\ ex_screener_data[1].run = "this")
    /\ ex_pc = "missing" =>
           /\ ex_news_data = None \/ ex_screener_data = None
           /\ ex_price_requests = <<>> /\ ex_output = <<>>

\* Witness of C29: the screener fetch failed, both sets were re-read, and the
\* output was written from this run's news and an earlier run's screener data.
C29_Witness ==
    /\ ex_pc = "written" /\ ex_output # <<>>
    /\ ex_env.fetched = [news |-> "ok", screener |-> "failed"]
    /\ ex_screener_data[1].run = "earlier"
    /\ ex_env.files.NEWS_FILE[1].run = "this"
    /\ Len(ex_price_requests) = 2

\* The run that ended for a missing data set.
MissingEndsRun ==
    /\ ex_pc = "missing" /\ ex_env.fetched = [news |-> "ok", screener |-> "failed"]
    /\ ex_news_data # None /\ ex_screener_data = None

(***************************************************************************)
(* The auto-refresh of the dashboard (src/dashboard.py, lines 27-30 and    *)
(* 73-98), for one session.                                                *)
(*                                                                         *)
(* The script of a session runs one button handler at a time; db_ui is     *)
(* where it is, the handler that returned last and the clicks so far. A    *)
(* thread is named by its place in db_threads; refresh_thread is that      *)
(* place, 0 for None. db_updates has one entry for every thread that       *)
(* started a data update, with whether stop_auto_refresh had returned      *)
(* last at that moment.                                                    *)
(***************************************************************************)
MaxClicks == 3

\* A join that returns without waiting for the thread.
join_returns_at_once(threads, t) == TRUE

\* Thread.join(): returns once the thread has ended.
join_returns(threads, t) == threads[t].pc = "dead"

Alive(threads) ==
    {t \in 1..Len(threads) : threads[t].pc \notin {"unstarted", "dead"}}

InitDashboard ==
    /\ db_ui = [pc |-> "idle", last |-> "none", clicks |-> 0]
    /\ stop_refresh = FALSE /\ refresh_thread = 0
    /\ db_threads = <<>> /\ db_updates = {}
    /\ CalIdle /\ AdjIdle /\ PtIdle /\ DdIdle /\ MainIdle /\ FbIdle
    /\ CkIdle /\ ScIdle /\ CoIdle /\ PrIdle /\ ExIdle /\ ChIdle /\ ClIdle

\* Lines 174-181: a click on Start or on Stop calls the handler.
Click ==
    /\ db_ui.pc = "idle" /\ db_ui.clicks < MaxClicks
    /\ \E h \in {"start_check", "stop_check"} :
           db_ui' = [db_ui EXCEPT !.pc = h, !.clicks = @ + 1]
    /\ UNCHANGED <<stop_refresh, refresh_thread, db_threads, db_updates>>
    /\ UNCHANGED <<prVars, exVars, chVars, clVars>>
    /\ UNCHANGED <<calVars, adjVars, ptVars, ddVars, mainVars, FINBERT_PIPELINE>>
    /\ UNCHANGED <<ckVars, scVars, coVars>>

\* start_auto_refresh, lines 82-83: the signal to an existing thread.
StartSignal ==
    /\ db_ui.pc = "start_check"
    /\ IF refresh_thread # 0
       THEN stop_refresh' = TRUE /\ db_ui' = [db_ui EXCEPT !.pc = "start_join"]
       ELSE UNCHANGED stop_refresh /\ db_ui' = [db_ui EXCEPT !.pc = "start_new"]
    /\ UNCHANGED <<refresh_thread, db_threads, db_updates>>
    /\ UNCHANGED <<prVars, exVars, chVars, clVars>>
    /\ UNCHANGED <<calVars, adjVars, ptVars, ddVars, mainVars, FINBERT_PIPELINE>>
    /\ UNCHANGED <<ckVars, scVars, coVars>>

\* Line 84: the join.
StartJoin ==
    /\ db_ui.pc = "start_join"
    /\ join_returns(db_threads, refresh_thread)
    /\ db_ui' = [db_ui EXCEPT !.pc = "start_new"]
    /\ UNCHANGED <<stop_refresh, refresh_thread, db_threads, db_updates>>
    /\ UNCHANGED <<prVars, exVars, chVars, clVars>>
    /\ UNCHANGED <<calVars, adjVars, ptVars, ddVars, mainVars, FINBERT_PIPELINE>>
    /\ UNCHANGED <<ckVars, scVars, coVars>>

\* Lines 86-90: the flag is cleared and the new Thread object is stored.
StartNew ==
    /\ db_ui.pc = "start_new"
    /\ stop_refresh' = FALSE
    /\ db_threads' = Append(db_threads, [pc |-> "unstarted"])
    /\ refresh_thread' = Len(db_threads) + 1
    /\ db_ui' = [db_ui EXCEPT !.pc = "start_run"]
    /\ UNCHANGED db_updates
    /\ UNCHANGED <<prVars, exVars, chVars, clVars>>
    /\ UNCHANGED <<calVars, adjVars, ptVars, ddVars, mainVars, FINBERT_PIPELINE>>
    /\ UNCHANGED <<ckVars, scVars, coVars>>

\* Line 91: refresh_thread.start(); the handler returns.
StartRun ==
    /\ db_ui.pc = "start_run"
    /\ db_threads' = [db_threads EXCEPT ![refresh_thread].pc = "check"]
    /\ db_ui' = [db_ui EXCEPT !.pc = "idle", !.last = "start"]
    /\ UNCHANGED <<stop_refresh, refresh_thread, db_updates>>
    /\ UNCHANGED <<prVars, exVars, chVars, clVars>>
    /\ UNCHANGED <<calVars, adjVars, ptVars, ddVars, mainVars, FINBERT_PIPELINE>>
    /\ UNCHANGED <<ckVars, scVars, coVars>>

\* stop_auto_refresh, lines 95-96: the signal, or the return when there is
\* no thread.
StopSignal ==
    /\ db_ui.pc = "stop_check"
    /\ IF refresh_thread # 0
       THEN stop_refresh' = TRUE /\ db_ui' = [db_ui EXCEPT !.pc = "stop_join"]
       ELSE /\ UNCHANGED stop_refresh
            /\ db_ui' = [db_ui EXCEPT !.pc = "idle", !.last = "stop"]
    /\ UNCHANGED <<refresh_thread, db_threads, db_updates>>
    /\ UNCHANGED <<prVars, exVars, chVars, clVars>>
    /\ UNCHANGED <<calVars, adjVars, ptVars, ddVars, mainVars, FINBERT_PIPELINE>>
    /\ UNCHANGED <<ckVars, scVars, coVars>>

\* Lines 97-98: the join, refresh_thread = None, the return.
StopJoin ==
    /\ db_ui.pc = "stop_join"
    /\ join_returns(db_threads, refresh_thread)
    /\ refresh_thread' = 0
    /\ db_ui' = [db_ui EXCEPT !.pc = "idle", !.last = "stop"]
    /\ UNCHANGED <<stop_refresh, db_threads, db_updates>>
    /\ UNCHANGED <<prVars, exVars, chVars, clVars>>
    /\ UNCHANGED <<calVars, adjVars, ptVars, ddVars, mainVars, FINBERT_PIPELINE>>
    /\ UNCHANGED <<ckVars, scVars, coVars>>

\* auto_refresh, line 75: the test of the flag at the head of the loop.
ThreadCheck(t) ==
    /\ db_threads[t].pc = "check"
    /\ db_threads' = [db_threads EXCEPT
                         ![t].pc = IF stop_refresh THEN "dead" ELSE "update"]
    /\ UNCHANGED <<db_ui, stop_refresh, refresh_thread, db_updates>>
    /\ UNCHANGED <<prVars, exVars, chVars, clVars>>
    /\ UNCHANGED <<calVars, adjVars, ptVars, ddVars, mainVars, FINBERT_PIPELINE>>
    /\ UNCHANGED <<ckVars, scVars, coVars>>

\* Line 76: run_data_updates() is started and answers True or False.
ThreadUpdate(t) ==
    /\ db_threads[t].pc = "update"
    /\ db_updates' = db_updates \cup
           {[thread |-> t,
             after_stop |-> (db_ui.pc = "idle" /\ db_ui.last = "stop")]}
    /\ \E ok \in BOOLEAN :
           db_threads' = [db_threads EXCEPT
                             ![t].pc = IF ok THEN "rerun" ELSE "sleep"]
    /\ UNCHANGED <<db_ui, stop_refresh, refresh_thread>>
    /\ UNCHANGED <<prVars, exVars, chVars, clVars>>
    /\ UNCHANGED <<calVars, adjVars, ptVars, ddVars, mainVars, FINBERT_PIPELINE>>
    /\ UNCHANGED <<ckVars, scVars, coVars>>

\* Line 77: st.experimental_rerun() returns, or raises and ends the thread.
ThreadRerun(t) ==
    /\ db_threads[t].pc = "rerun"
    /\ \E raises \in BOOLEAN :
           db_threads' = [db_threads EXCEPT
                             ![t].pc = IF raises THEN "dead" ELSE "sleep"]
    /\ UNCHANGED <<db_ui, stop_refresh, refresh_thread, db_updates>>
    /\ UNCHANGED <<prVars, exVars, chVars, clVars>>
    /\ UNCHANGED <<calVars, adjVars, ptVars, ddVars, mainVars, FINBERT_PIPELINE>>
    /\ UNCHANGED <<ckVars, scVars, coVars>>

\* Line 78: the sleep ends.
ThreadSleep(t) ==
    /\ db_threads[t].pc = "sleep"
    /\ db_threads' = [db_threads EXCEPT ![t].pc = "check"]
    /\ UNCHANGED <<db_ui, stop_refresh, refresh_thread, db_updates>>
    /\ UNCHANGED <<prVars, exVars, chVars, clVars>>
    /\ UNCHANGED <<calVars, adjVars, ptVars, ddVars, mainVars, FINBERT_PIPELINE>>
    /\ UNCHANGED <<ckVars, scVars, coVars>>

NextDashboard ==
    \/ Click \/ StartSignal \/ StartJoin \/ StartNew \/ StartRun
    \/ StopSignal \/ StopJoin
    \/ \E t \in 1..Len(db_threads) :
           ThreadCheck(t) \/ ThreadUpdate(t) \/ ThreadRerun(t) \/ ThreadSleep(t)
SpecDashboard == InitDashboard /\ [][NextDashboard]_vars

\* C30: at most one auto-refresh thread is alive at any time; a thread is
\* started only when the one before it has ended; once stop_auto_refresh has
\* returned no refresh thread is running and auto-refresh starts no update.
C30_AtMostOneRefreshThread ==
    /\ Cardinality(Alive(db_threads)) <= 1
    /\ db_ui.pc \in {"start_new", "start_run"} => Alive(db_threads) = {}
    /\ (db_ui.pc = "idle" /\ db_ui.last = "stop") =>
           (Alive(db_threads) = {} /\ refresh_thread = 0)
    /\ \A u \in db_updates : ~u.after_stop

\* Witness of C30: a second Start found a running thread, which has ended
\* after an update of its own, and the second thread is at work.
C30_Witness ==
    /\ db_ui.pc = "idle" /\ db_ui.last = "start" /\ db_ui.clicks = 2
    /\ Len(db_threads) = 2
    /\ db_threads[1].pc = "dead" /\ db_threads[2].pc = "update"
    /\ \E u \in db_updates : u.thread = 1

\* Stop has returned after joining a thread that had updated.
StoppedAfterUpdate ==
    /\ db_ui.pc = "idle" /\ db_ui.last = "stop"
    /\ Len(db_threads) = 1 /\ db_threads[1].pc = "dead"
    /\ db_updates # {}

====
